---- MODULE Spec2Model ----
(***************************************************************************)
(* Model of the WHG-Wetterstation ingestion, alert and aggregation code:   *)
(* src/database/queries.js (store operations), src/routes/weather.js       *)
(* (request handlers), src/database/schema.sql (tables, constraints and    *)
(* triggers) and src/scripts/insertTestData.js (seeding script).           *)
(*                                                                         *)
(* A request handler is a process: every `await` of a store operation is   *)
(* one atomic step (SQLite serializes statements), the synchronous code    *)
(* between two awaits is folded into the step that precedes it.            *)
(***************************************************************************)
EXTENDS Integers, Sequences, FiniteSets

(***************************************************************************)
(* JavaScript / SQLite values.  A value is a record with a type tag `t`,   *)
(* an integer payload `n` and a string payload `s`.                        *)
(***************************************************************************)
Undef == [t |-> "undefined", n |-> 0, s |-> ""]
Null == [t |-> "null", n |-> 0, s |-> ""]
NaN == [t |-> "NaN", n |-> 0, s |-> ""]
Num(x) == [t |-> "number", n |-> x, s |-> ""]
Str(x) == [t |-> "string", n |-> 0, s |-> x]

\* The characters of the string literals that the model parses.
Chars(s) ==
  CASE s = "" -> <<>>
    [] s = "1" -> <<"1">>
    [] s = "2" -> <<"2">>
    [] s = "5" -> <<"5">>
    [] s = "30" -> <<"3", "0">>
    [] s = "31" -> <<"3", "1">>
    [] s = "12abc" -> <<"1", "2", "a", "b", "c">>
    [] s = "abc" -> <<"a", "b", "c">>
    [] s = "bad" -> <<"b", "a", "d">>
    [] s = "0" -> <<"0">>
    [] s = "-5" -> <<"-", "5">>
    [] s = "168" -> <<"1", "6", "8">>
    [] s = "169" -> <<"1", "6", "9">>
    [] s = "720" -> <<"7", "2", "0">>
    [] s = "721" -> <<"7", "2", "1">>
    [] s = "100000" -> <<"1", "0", "0", "0", "0", "0">>
    [] s = "Infinity" -> <<"I", "n", "f", "i", "n", "i", "t", "y">>
    [] OTHER -> <<"?">>

DigitChars == <<"0", "1", "2", "3", "4", "5", "6", "7", "8", "9">>
IsDigit(c) == \E d \in 1..10 : DigitChars[d] = c
DigitVal(c) == (CHOOSE d \in 1..10 : DigitChars[d] = c) - 1

\* Length of the longest prefix of cs made of decimal digits.
RECURSIVE DigitPrefix(_)
DigitPrefix(cs) ==
  IF cs = <<>> \/ ~IsDigit(Head(cs)) THEN 0 ELSE 1 + DigitPrefix(Tail(cs))

RECURSIVE DigitsValue(_, _)
DigitsValue(cs, k) ==
  IF k = 0 THEN 0 ELSE 10 * DigitsValue(cs, k - 1) + DigitVal(cs[k])

\* parseInt / parseFloat on the inputs of the model (numbers and strings
\* without fraction or exponent): a number is returned as it is, a string
\* yields its optional sign and leading decimal digits, anything else is NaN.
ParseNumber(v) ==
  CASE v.t = "number" -> v
    [] v.t = "string" ->
         LET cs == Chars(v.s)
             neg == cs # <<>> /\ Head(cs) = "-"
             ds == IF neg THEN Tail(cs) ELSE cs
             k == DigitPrefix(ds)
         IN IF k = 0 THEN NaN
            ELSE Num(IF neg THEN -DigitsValue(ds, k) ELSE DigitsValue(ds, k))
    [] OTHER -> NaN

\* The REAL value +Infinity: a number above every finite value of the model.
InfReal == 1000000

\* parseFloat: as above, and the literal Infinity is a number.
ParseFloat(v) == IF v = Str("Infinity") THEN Num(InfReal) ELSE ParseNumber(v)

\* Number(v) as applied by the relational operators: the whole string has
\* to be numeric (the empty string is 0).
ToNumber(v) ==
  CASE v.t = "number" -> v
    [] v.t = "string" ->
         LET cs == Chars(v.s)
         IN IF DigitPrefix(cs) = Len(cs) THEN Num(DigitsValue(cs, Len(cs))) ELSE NaN
    [] v.t = "null" -> Num(0)
    [] OTHER -> NaN

NatToString(n) ==
  LET RECURSIVE Go(_)
      Go(m) == IF m < 10 THEN DigitChars[m + 1]
               ELSE Go(m \div 10) \o DigitChars[(m % 10) + 1]
  IN Go(n)

\* String(v)
JsString(v) ==
  CASE v.t = "number" -> IF v.n < 0 THEN "-" \o NatToString(-v.n) ELSE NatToString(v.n)
    [] v.t = "string" -> v.s
    [] OTHER -> v.t

\* JavaScript truthiness and the || operator.
Truthy(v) ==
  CASE v.t = "number" -> v.n # 0
    [] v.t = "string" -> v.s # ""
    [] OTHER -> FALSE

Or(a, b) == IF Truthy(a) THEN a ELSE b

\* Binding a JavaScript value to a statement parameter: undefined is left
\* unbound, which SQLite reads as NULL.
Bind(v) == IF v.t = "undefined" THEN Null ELSE v

\* Column affinity REAL / INTEGER: a text that is a well-formed number is
\* stored as a number, any other text is stored as it is (no error).
NumericAffinity(v) ==
  IF v.t = "string" /\ Chars(v.s) # <<>> /\ DigitPrefix(Chars(v.s)) = Len(Chars(v.s))
  THEN Num(DigitsValue(Chars(v.s), Len(Chars(v.s))))
  ELSE v

(***************************************************************************)
(* Bounds and program constants.                                           *)
(***************************************************************************)
MaxRequests == 2
MaxTicks == 1
MaxQueryRequests == 3
MaxHalfHours == 3
MaxFaults == 2
MaxFaultRequests == 1
MaxPressureRequests == 1
MaxHourRequests == 1
MaxLatestRequests == 3
MaxStatRequests == 1
MaxSenderRequests == 3
MaxPermuteRequests == 1
MaxUnknownRequests == 2
MaxLegacyRequests == 2
MaxRules == 1
MaxRollups == 3
DefaultLimit == 24
ScriptReadings == 2
HourSecs == 3600
DaySecs == 24 * HourSecs
MAX_HOURS_STANDARD == 720
MAX_HOURS_VISUALIZATION == 168
DefaultSampleHours == 5
DefaultRangeHours == 24
InvalidId == -1
T0 == 10 * HourSecs

(***************************************************************************)
(* State: the five tables of schema.sql that the handlers use (rows in     *)
(* rowid order, AUTOINCREMENT id = position), the clock, and the request   *)
(* handlers in flight.                                                     *)
(***************************************************************************)
VARIABLES senders, weather_data, alerts, system_logs, weather_statistics,
          now, pc, frame, nreq, script, startup

vars == <<senders, weather_data, alerts, system_logs, weather_statistics,
          now, pc, frame, nreq, script, startup>>
store == <<senders, weather_data, alerts, system_logs, weather_statistics>>

Procs == {1, 2}

\* The statements of schema.sql in the order in which executeSqlFile runs
\* them: seven tables, two views, two triggers.
SchemaStatements ==
  << "senders", "weather_data", "sensor_types", "sender_sensors", "alerts",
     "weather_statistics", "system_logs", "v_latest_weather",
     "v_hourly_averages", "update_sender_timestamp", "log_new_sender" >>

\* The process has loaded app.js and db.js: the database is being opened,
\* nothing of the schema has been executed, the server does not listen yet.
Startup0 == [db |-> "connecting", executed |-> 0, listening |-> FALSE]

\* initializeDatabase has run to its end and the server listens.
Initialized ==
  [db |-> "complete", executed |-> Len(SchemaStatements), listening |-> TRUE]

\* A payload of POST / or one entry of POST /batch (the fields the code reads).
EmptyBody ==
  [id |-> Undef, name |-> Undef, temperature |-> Undef, humidity |-> Undef,
   pressure |-> Undef, bar |-> Undef, gasval |-> Undef, gas_value |-> Undef,
   battery_level |-> Undef, unix_timestamp |-> Undef, unix |-> Undef,
   time |-> Undef]

\* The body of POST /alerts.
EmptyAlertBody ==
  [sender_id |-> Undef, alert_type |-> Undef, condition |-> Undef,
   threshold_value |-> Undef]

\* The locals of one handler invocation and, once it is done, its response
\* (`at`: the time at which the aggregation statement of a query ran;
\* `failedAt`: the statements of the invocation that the database has
\* rejected with a storage error, by the position of the handler).
\* The body of PUT /senders/:senderId, the data of updateSender.
EmptyUpdate ==
  [name |-> Undef, location |-> Undef, description |-> Undef, is_active |-> Undef]

Frame0 ==
  [kind |-> "none", rid |-> 0, isArray |-> FALSE, entries |-> <<>>,
   areq |-> EmptyAlertBody, qsender |-> "", qhours |-> Undef, hours |-> 0,
   i |-> 0, senderId |-> "", rules |-> <<>>, k |-> 0, triggered |-> <<>>,
   allTriggered |-> <<>>, processed |-> 0, errors |-> <<>>, status |-> 0,
   lastID |-> 0, at |-> 0, failedAt |-> <<>>, data |-> <<>>,
   vsenders |-> <<>>, viz |-> <<>>, statType |-> "", qlimit |-> Undef,
   limit |-> 0, ureq |-> EmptyUpdate]

Goto(p, l, f) ==
  /\ pc' = [pc EXCEPT ![p] = l]
  /\ frame' = [frame EXCEPT ![p] = f]

\* The response is sent: only what the response carries is kept.
Respond(f, code) ==
  [f EXCEPT !.status = code, !.rules = <<>>, !.k = 0, !.i = 0]

\* A handler slot takes a new request.  The seeding script and the server
\* do not overlap in the model: the script runs to its end on the fresh
\* database, or not at all.
CanStart(p) ==
  /\ pc[p] \in {"idle", "done", "hung"}
  /\ script.pc \in {"start", "closed"}

(***************************************************************************)
(* Store operations (queries.js) with the constraints of schema.sql.       *)
(***************************************************************************)
SenderExists(rows, sid) == \E j \in 1..Len(rows) : rows[j].sender_id = sid

\* INSERT INTO senders ... with no conflict clause handling (a faulty variant).
InsertSenderAlways(rows, sid, name) ==
  Append(rows, [id |-> Len(rows) + 1, sender_id |-> sid, name |-> name,
                location |-> Null, description |-> Null, is_active |-> 1])

\* INSERT OR REPLACE: an existing row gives way to the new one (a faulty
\* variant).
InsertOrReplaceSender(rows, sid, name) ==
  IF SenderExists(rows, sid)
  THEN [j \in 1..Len(rows) |->
          IF rows[j].sender_id = sid
          THEN [rows[j] EXCEPT !.name = name, !.location = Null,
                               !.description = Null, !.is_active = 1]
          ELSE rows[j]]
  ELSE Append(rows, [id |-> Len(rows) + 1, sender_id |-> sid, name |-> name,
                     location |-> Null, description |-> Null, is_active |-> 1])

\* INSERT OR IGNORE INTO senders (sender_id, name, is_active) VALUES (?, ?, 1)
\* under sender_id TEXT UNIQUE NOT NULL.
InsertOrIgnoreSender(rows, sid, name) ==
  IF SenderExists(rows, sid) THEN rows
  ELSE Append(rows, [id |-> Len(rows) + 1, sender_id |-> sid, name |-> name,
                     location |-> Null, description |-> Null, is_active |-> 1])

\* Trigger log_new_sender: AFTER INSERT ON senders.
LogNewSender(logs, before, after) ==
  IF Len(after) > Len(before)
  THEN Append(logs, [sender_id |-> Str(after[Len(after)].sender_id),
                     log_level |-> "info", event_type |-> "sender_created"])
  ELSE logs

\* logEvent: INSERT INTO system_logs (the columns the model keeps).
LogRow(sid, level, type) ==
  [sender_id |-> sid, log_level |-> level, event_type |-> type]

\* The row insertWeatherData writes for payload d of sender sid at time t.
ReadingRow(rows, sid, d, t) ==
  LET timestamp == Or(Or(Or(d.unix_timestamp, d.unix), d.time), Num(t))
      pressure == Or(Or(Or(d.pressure, d.bar), d.gasval), d.gas_value)
  IN [id |-> Len(rows) + 1, sender_id |-> sid,
      temperature |-> NumericAffinity(Bind(d.temperature)),
      humidity |-> NumericAffinity(Bind(d.humidity)),
      pressure |-> NumericAffinity(Bind(pressure)),
      battery_level |-> NumericAffinity(Bind(d.battery_level)),
      unix_timestamp |-> NumericAffinity(Bind(timestamp))]

\* getAlerts: SELECT * FROM alerts WHERE sender_id = ? AND is_active = 1
GetAlerts(rows, sid) ==
  SelectSeq(rows, LAMBDA a : a.sender_id = sid /\ a.is_active = 1)

(***************************************************************************)
(* checkAlerts: the evaluation of one rule against the payload.            *)
(***************************************************************************)
AlertValue(alert, d) ==
  CASE alert.alert_type = "temperature" -> d.temperature
    [] alert.alert_type = "humidity" -> d.humidity
    [] alert.alert_type = "pressure" -> d.pressure
    [] alert.alert_type = "battery" -> d.battery_level
    [] OTHER -> Undef

Abs(x) == IF x < 0 THEN -x ELSE x

\* case 'above' with >= in place of > (a faulty variant).
CompareAboveOrEqual(cond, value, threshold) ==
  LET x == ToNumber(value)
  IN /\ x.t = "number"
     /\ CASE cond = "above" -> x.n >= threshold
          [] cond = "below" -> x.n < threshold
          [] cond = "equals" -> 10 * Abs(x.n - threshold) < 1
          [] OTHER -> FALSE

\* switch (alert.condition): a comparison with NaN is false, an unknown
\* condition leaves shouldTrigger false.
Compare(cond, value, threshold) ==
  LET x == ToNumber(value)
  IN /\ x.t = "number"
     /\ CASE cond = "above" -> x.n > threshold
          [] cond = "below" -> x.n < threshold
          [] cond = "equals" -> 10 * Abs(x.n - threshold) < 1
          [] OTHER -> FALSE

\* A rule that fires only while it has never fired: a cooldown (a faulty
\* variant).
ShouldTriggerOnce(alert, d) ==
  LET value == AlertValue(alert, d)
  IN /\ alert.last_triggered = Null
     /\ alert.alert_type \in {"temperature", "humidity", "pressure", "battery"}
     /\ value.t \notin {"undefined", "null"}
     /\ Compare(alert.condition, value, alert.threshold_value)

ShouldTrigger(alert, d) ==
  LET value == AlertValue(alert, d)
  IN /\ alert.alert_type \in {"temperature", "humidity", "pressure", "battery"}
     /\ value.t \notin {"undefined", "null"}
     /\ Compare(alert.condition, value, alert.threshold_value)

\* The next rule at or after position k of the loaded rules that fires
\* (0 when none does): the loop runs synchronously up to its next await.
NextTriggered(rules, k, d) ==
  IF \E j \in k..Len(rules) : ShouldTrigger(rules[j], d)
  THEN CHOOSE j \in k..Len(rules) :
         /\ ShouldTrigger(rules[j], d)
         /\ \A l \in k..(j - 1) : ~ShouldTrigger(rules[l], d)
  ELSE 0

(***************************************************************************)
(* POST / and POST /batch (weather.js) and insertWeatherData, checkAlerts  *)
(* and logEvent (queries.js), one step per awaited statement.              *)
(***************************************************************************)
\* The skip without the test for -1 (a faulty variant).
SkippedIfUndefined(entry) == entry.id.t = "undefined"

\* if (typeof id == "undefined" || id === -1) continue;
Skipped(entry) ==
  entry.id.t = "undefined" \/ (entry.id.t = "number" /\ entry.id.n = InvalidId)

\* const { id } = entry; throws a TypeError for an entry that is null.
Throws(entry) == entry = Null

\* The loop passes over the entry with `continue`.
Continues(entry) == ~Throws(entry) /\ Skipped(entry)

\* The first entry at or after position j that is not skipped (0: none).
NextEntry(entries, j) ==
  IF \E l \in j..Len(entries) : ~Continues(entries[l])
  THEN CHOOSE l \in j..Len(entries) :
         /\ ~Continues(entries[l])
         /\ \A m \in j..(l - 1) : Continues(entries[m])
  ELSE 0

\* The batch loop from entry j on: the next entry's insertWeatherData, or
\* the code after the loop (the batch logEvent, then the response).
Advance(f, j) ==
  LET l == NextEntry(f.entries, j)
  IN IF l > 0
     THEN IF Throws(f.entries[l])
          THEN <<"catchOuter", [f EXCEPT !.i = l, !.triggered = <<>>]>>
          ELSE <<"ensureSender",
                 [f EXCEPT !.i = l, !.senderId = JsString(f.entries[l].id),
                           !.rules = <<>>, !.k = 0, !.triggered = <<>>]>>
     ELSE IF Len(f.allTriggered) > 0
          THEN <<"log", [f EXCEPT !.triggered = <<>>]>>
          ELSE <<"done", Respond([f EXCEPT !.triggered = <<>>], 200)>>

\* checkAlerts has returned f.triggered: the code that follows it.
AfterCheckAlerts(f) ==
  IF f.kind = "single"
  THEN IF Len(f.triggered) > 0
       THEN <<"log", f>>
       ELSE <<"done", Respond(f, 200)>>
  ELSE Advance([f EXCEPT !.processed = @ + 1,
                         !.allTriggered =
                            IF Len(f.triggered) > 0
                            THEN Append(@, [senderId |-> f.senderId,
                                            alerts |-> f.triggered])
                            ELSE @],
               f.i + 1)

\* router.post('/'): String(id), the validation, then insertWeatherData.
PostSingle(p, body) ==
  /\ CanStart(p)
  /\ nreq' = nreq + 1
  /\ LET f == [Frame0 EXCEPT !.kind = "single", !.rid = nreq + 1,
                             !.entries = <<body>>, !.i = 1,
                             !.senderId = JsString(body.id)]
     IN IF f.senderId = ""
        THEN Goto(p, "done", Respond(f, 400))
        ELSE Goto(p, "ensureSender", f)
  /\ UNCHANGED <<store, now, script, startup>>

\* router.post('/batch'): the two validations, then the loop.
PostBatch(p, isArray, entries) ==
  /\ CanStart(p)
  /\ nreq' = nreq + 1
  /\ LET f == [Frame0 EXCEPT !.kind = "batch", !.rid = nreq + 1,
                             !.isArray = isArray, !.entries = entries]
     IN IF ~isArray \/ Len(entries) = 0
        THEN Goto(p, "done", Respond(f, 400))
        ELSE LET nx == Advance(f, 1) IN Goto(p, nx[1], nx[2])
  /\ UNCHANGED <<store, now, script, startup>>

\* insertWeatherData, first await: ensureSender(senderId, data.name).
EnsureSender(p) ==
  /\ pc[p] = "ensureSender"
  /\ LET f == frame[p]
         d == f.entries[f.i]
         senderName == JsString(Or(d.name, Str("Sender " \o f.senderId)))
         after == InsertOrIgnoreSender(senders, f.senderId, senderName)
     IN /\ senders' = after
        /\ system_logs' = LogNewSender(system_logs, senders, after)
        /\ Goto(p, "insert", f)
  /\ UNCHANGED <<weather_data, alerts, weather_statistics, now, nreq, script, startup>>

\* insertWeatherData, second await: INSERT INTO weather_data.  The row has
\* a sender (FOREIGN KEY) and a timestamp (NOT NULL) by construction.
InsertReading(p) ==
  /\ pc[p] = "insert"
  /\ LET f == frame[p]
         row == ReadingRow(weather_data, f.senderId, f.entries[f.i], now)
     IN /\ weather_data' = Append(weather_data, row)
        /\ Goto(p, "getAlerts", [f EXCEPT !.lastID = row.id])
  /\ UNCHANGED <<senders, alerts, system_logs, weather_statistics, now, nreq, script, startup>>

\* checkAlerts, first await: the active rules of the sender are loaded and
\* the loop runs up to the first rule that fires.
LoadAlerts(p) ==
  /\ pc[p] = "getAlerts"
  /\ LET f == frame[p]
         rules == GetAlerts(alerts, f.senderId)
         k == NextTriggered(rules, 1, f.entries[f.i])
     IN IF k > 0
        THEN Goto(p, "update", [f EXCEPT !.rules = rules, !.k = k])
        ELSE LET nx == AfterCheckAlerts(f) IN Goto(p, nx[1], nx[2])
  /\ UNCHANGED <<store, now, nreq, script, startup>>

\* checkAlerts, the await in the loop: UPDATE alerts SET last_triggered =
\* CURRENT_TIMESTAMP WHERE id = ?, then on to the next rule that fires.
UpdateAlert(p) ==
  /\ pc[p] = "update"
  /\ LET f == frame[p]
         a == f.rules[f.k]
         g == [f EXCEPT !.triggered = Append(@, a.id)]
         k == NextTriggered(f.rules, f.k + 1, f.entries[f.i])
     IN /\ alerts' = [alerts EXCEPT ![a.id].last_triggered = Num(now)]
        /\ IF k > 0
           THEN Goto(p, "update", [g EXCEPT !.k = k])
           ELSE LET nx == AfterCheckAlerts(g) IN Goto(p, nx[1], nx[2])
  /\ UNCHANGED <<senders, weather_data, system_logs, weather_statistics, now, nreq, script, startup>>

\* The logEvent that precedes a success response.
LogEvent(p) ==
  /\ pc[p] = "log"
  /\ LET f == frame[p]
     IN CASE f.kind = "single" ->
               /\ system_logs' = Append(system_logs,
                     LogRow(Str(f.senderId), "warning", "alert_triggered"))
               /\ Goto(p, "done", Respond(f, 200))
          [] f.kind = "batch" ->
               /\ system_logs' = Append(system_logs,
                     LogRow(Null, "warning", "batch_alerts_triggered"))
               /\ Goto(p, "done", Respond(f, 200))
          [] OTHER ->
               /\ system_logs' = Append(system_logs,
                     LogRow(Str(f.senderId), "info", "alert_created"))
               /\ Goto(p, "done", Respond(f, 201))
  /\ UNCHANGED <<senders, weather_data, alerts, weather_statistics, now, nreq, script, startup>>

(***************************************************************************)
(* POST /alerts (weather.js) and createAlert (queries.js).                 *)
(***************************************************************************)
VALID_ALERT_TYPES == {"temperature", "humidity", "pressure"}
VALID_CONDITIONS == {">", "<", ">=", "<=", "==", "!="}

\* !x for a request field.
Falsy(v) == ~Truthy(v)

\* The validations without the check of alert_type against the list (a faulty variant).
AlertRejectedAnyType(b) ==
  \/ Falsy(b.sender_id) \/ Falsy(b.alert_type) \/ Falsy(b.condition)
  \/ b.threshold_value.t = "undefined"
  \/ ~(b.condition.t = "string" /\ b.condition.s \in VALID_CONDITIONS)
  \/ ParseFloat(b.threshold_value).t = "NaN"

\* The four validations of the handler, in order: TRUE when one rejects.
AlertRejected(b) ==
  \/ Falsy(b.sender_id) \/ Falsy(b.alert_type) \/ Falsy(b.condition)
  \/ b.threshold_value.t = "undefined"
  \/ ~(b.alert_type.t = "string" /\ b.alert_type.s \in VALID_ALERT_TYPES)
  \/ ~(b.condition.t = "string" /\ b.condition.s \in VALID_CONDITIONS)
  \/ ParseFloat(b.threshold_value).t = "NaN"

PostAlerts(p, b) ==
  /\ CanStart(p)
  /\ nreq' = nreq + 1
  /\ LET f == [Frame0 EXCEPT !.kind = "alert", !.rid = nreq + 1, !.areq = b,
                             !.senderId = JsString(b.sender_id)]
     IN IF AlertRejected(b)
        THEN Goto(p, "done", Respond(f, 400))
        ELSE Goto(p, "createAlert", f)
  /\ UNCHANGED <<store, now, script, startup>>

\* createAlert: INSERT INTO alerts ... VALUES (?, ?, ?, ?, 1).
AlertRow(rows, sid, type, cond, threshold) ==
  [id |-> Len(rows) + 1, sender_id |-> sid, alert_type |-> type,
   condition |-> cond, threshold_value |-> threshold, is_active |-> 1,
   last_triggered |-> Null]

\* await createAlert(...).  With an unknown sender the FOREIGN KEY rejects
\* the insert, and it rejects the logEvent of the catch block as well: that
\* rejection is not caught and no response is sent.
CreateAlert(p) ==
  /\ pc[p] = "createAlert"
  /\ LET f == frame[p]
         row == AlertRow(alerts, f.senderId, f.areq.alert_type.s,
                         f.areq.condition.s, ParseFloat(f.areq.threshold_value).n)
     IN IF SenderExists(senders, f.senderId)
        THEN /\ alerts' = Append(alerts, row)
             /\ Goto(p, "log", [f EXCEPT !.lastID = row.id])
        ELSE /\ alerts' = alerts
             /\ Goto(p, "hung", f)
  /\ UNCHANGED <<senders, weather_data, system_logs, weather_statistics, now, nreq, script, startup>>

(***************************************************************************)
(* Storage errors: runQuery/getAll reject, the awaiting handler's catch    *)
(* block runs (weather.js 87-94, 140-144, 163-170, 508-512).               *)
(***************************************************************************)
\* A rejected statement after which the handler goes on to checkAlerts (a
\* faulty variant).
StatementFailsThenEvaluates(p) ==
  /\ pc[p] \in {"ensureSender", "insert", "getAlerts", "update", "log", "createAlert"}
  /\ Len(frame[p].failedAt) < MaxFaults
  /\ LET f == [frame[p] EXCEPT !.failedAt = Append(@, pc[p])]
     IN IF pc[p] \in {"ensureSender", "insert"}
        THEN Goto(p, "getAlerts", f)
        ELSE IF f.kind = "batch" /\ pc[p] # "log"
             THEN Goto(p, "catchLog", [f EXCEPT !.errors = Append(@, f.senderId)])
             ELSE Goto(p, IF f.kind = "batch" THEN "catchOuter" ELSE "catchLog", f)
  /\ UNCHANGED <<store, now, nreq, script, startup>>

\* The awaited statement of the try block rejects: control passes to the
\* catch block that encloses it.  In POST /batch the per-entry catch pushes
\* the entry to errors; the logEvent after the loop is only inside the
\* outer try.
StatementFails(p) ==
  /\ pc[p] \in {"ensureSender", "insert", "getAlerts", "update", "log", "createAlert"}
  /\ Len(frame[p].failedAt) < MaxFaults
  /\ LET f == [frame[p] EXCEPT !.failedAt = Append(@, pc[p])]
     IN IF f.kind = "batch"
        THEN IF pc[p] = "log"
             THEN Goto(p, "catchOuter", f)
             ELSE Goto(p, "catchLog", [f EXCEPT !.errors = Append(@, f.senderId)])
        ELSE Goto(p, "catchLog", f)
  /\ UNCHANGED <<store, now, nreq, script, startup>>

\* The event type of the logEvent of a catch block.
CatchEvent(f, l) ==
  CASE f.kind = "single" -> "data_insert_failed"
    [] f.kind = "batch" /\ l = "catchLog" -> "batch_entry_failed"
    [] f.kind = "batch" -> "batch_failed"
    [] OTHER -> "create_alert_failed"

\* The logEvent of a catch block has rejected: out of the per-entry catch
\* of POST /batch the error reaches the outer catch; elsewhere the promise
\* of the handler rejects and no response is sent.
CatchThrows(p, f) ==
  IF f.kind = "batch" /\ pc[p] = "catchLog"
  THEN Goto(p, "catchOuter", f)
  ELSE Goto(p, "hung", f)

\* await logEvent('error', ...) in a catch block, then what follows it: the
\* error response, or the next entry of the batch.  system_logs.sender_id
\* is a FOREIGN KEY: the INSERT is rejected for a sender that has no row.
CatchLog(p) ==
  /\ pc[p] \in {"catchLog", "catchOuter"}
  /\ LET f == frame[p]
         sid == IF pc[p] = "catchOuter" THEN Null ELSE Str(f.senderId)
     IN IF sid = Null \/ SenderExists(senders, f.senderId)
        THEN /\ system_logs' = Append(system_logs,
                                      LogRow(sid, "error", CatchEvent(f, pc[p])))
             /\ IF f.kind = "batch" /\ pc[p] = "catchLog"
                THEN LET nx == Advance(f, f.i + 1) IN Goto(p, nx[1], nx[2])
                ELSE Goto(p, "done", Respond(f, 500))
        ELSE /\ system_logs' = system_logs
             /\ CatchThrows(p, f)
  /\ UNCHANGED <<senders, weather_data, alerts, weather_statistics, now, nreq, script, startup>>

\* The logEvent of a catch block rejects with a storage error.
CatchLogFails(p) ==
  /\ pc[p] \in {"catchLog", "catchOuter"}
  /\ Len(frame[p].failedAt) < MaxFaults
  /\ CatchThrows(p, [frame[p] EXCEPT !.failedAt = Append(@, pc[p])])
  /\ UNCHANGED <<store, now, nreq, script, startup>>

\* Time passes.
Tick(d, n) ==
  /\ now + d <= T0 + n * d
  /\ now' = now + d
  /\ UNCHANGED <<store, pc, frame, nreq, script, startup>>

(***************************************************************************)
(* The aggregation queries (queries.js).  `t` is the time of the query     *)
(* ('now' in SQL, Date.now() in JavaScript).                               *)
(***************************************************************************)
Ts(r) == r.unix_timestamp.n

\* strftime('%Y-%m-%d %H', unix_timestamp, 'unixepoch'): the calendar day
\* and the hour of the day; the strings compare as these pairs do.
HourKey(ts) == [day |-> ts \div DaySecs, hour |-> (ts % DaySecs) \div HourSecs]

KeyLess(a, b) == a.day < b.day \/ (a.day = b.day /\ a.hour < b.hour)

RowsOf(rows, sid) == {rows[j] : j \in {l \in 1..Len(rows) : rows[l].sender_id = sid}}

\* WHERE sender_id = ? AND unix_timestamp > ... (a faulty variant).
WindowRowsStrict(rows, sid, t, hours) ==
  {r \in RowsOf(rows, sid) : Ts(r) > t - hours * HourSecs}

\* WHERE sender_id = ? AND unix_timestamp >= <t minus hours>
WindowRows(rows, sid, t, hours) ==
  {r \in RowsOf(rows, sid) : Ts(r) >= t - hours * HourSecs}

\* The orders in which a statement with ORDER BY unix_timestamp ASC may
\* return the rows S: rows with equal timestamps come in any order.
RECURSIVE OrderedByTs(_)
OrderedByTs(S) ==
  IF S = {} THEN {<<>>}
  ELSE LET first == {r \in S : \A x \in S : Ts(r) <= Ts(x)}
       IN UNION {{<<r>> \o q : q \in OrderedByTs(S \ {r})} : r \in first}

\* getWeatherDataRange
WeatherDataRange(rows, sid, t, hoursAgo) ==
  OrderedByTs(WindowRows(rows, sid, t, hoursAgo))

SetMin(S) == CHOOSE x \in S : \A y \in S : x <= y
SetMax(S) == CHOOSE x \in S : \A y \in S : x >= y

\* const safeHours = Number.isInteger(parsedHours) && parsedHours > 0 ? parsedHours : 5
SafeHours(hours) == IF hours > 0 THEN hours ELSE DefaultSampleHours

\* The subquery of getHourlySamples without its LIMIT (a faulty variant).
SampleBucketsUnlimited(rows, sid, t, hours) ==
  {HourKey(Ts(r)) : r \in WindowRows(rows, sid, t, hours)}

\* The subquery of getHourlySamples: the hours of the rows in the window,
\* ORDER BY hour DESC LIMIT safeHours.
SampleBuckets(rows, sid, t, hours) ==
  LET all == {HourKey(Ts(r)) : r \in WindowRows(rows, sid, t, hours)}
  IN {k \in all : Cardinality({k2 \in all : KeyLess(k, k2)}) < hours}

\* MAX(unix_timestamp) of the group of hour k (a faulty variant).
MaxUnix(rows, sid, t, hours, k) ==
  SetMax({Ts(r) : r \in {x \in WindowRows(rows, sid, t, hours) : HourKey(Ts(x)) = k}})

\* MIN(unix_timestamp) of the group of hour k.
MinUnix(rows, sid, t, hours, k) ==
  SetMin({Ts(r) : r \in {x \in WindowRows(rows, sid, t, hours) : HourKey(Ts(x)) = k}})

\* getHourlySamples: every row of the sender that joins a group on its
\* hour and on unix_timestamp = min_unix.
HourlySampleRows(rows, sid, t, hours) ==
  LET h == SafeHours(hours)
  IN {r \in RowsOf(rows, sid) :
        \E k \in SampleBuckets(rows, sid, t, h) :
          HourKey(Ts(r)) = k /\ Ts(r) = MinUnix(rows, sid, t, h, k)}

HourlySamples(rows, sid, t, hours) ==
  OrderedByTs(HourlySampleRows(rows, sid, t, hours))

\* The numeric reading of a non-NULL value by SUM/AVG (a text counts as 0).
Numeric(v) == IF v.t = "number" THEN v.n ELSE 0

RECURSIVE SumOf(_)
SumOf(S) ==
  IF S = {} THEN 0
  ELSE LET r == CHOOSE x \in S : TRUE IN r.v + SumOf(S \ {r})

\* num / den truncated (a faulty variant of the rounding).
TruncDiv(num, den) ==
  IF num >= 0 THEN num \div den ELSE -((-num) \div den)

\* num / den rounded to the nearest integer, halves away from zero.
RoundDiv(num, den) ==
  IF num >= 0 THEN (2 * num + den) \div (2 * den)
  ELSE -((2 * (-num) + den) \div (2 * den))

\* ROUND(AVG(col), 2) over the rows S, in hundredths; NULL when every value
\* of the column is NULL.  `col` names the column.
AvgRound(S, col, scale) ==
  LET vals == {[id |-> r.id, v |-> Numeric(r[col])] : r \in {x \in S : x[col].t # "null"}}
  IN IF vals = {} THEN Null
     ELSE Num(RoundDiv(scale * SumOf(vals), Cardinality(vals)))

\* ROUND(MIN(col), 2) and ROUND(MAX(col), 2) over numeric values, in hundredths.
MinRound(S, col) ==
  LET vals == {r[col].n : r \in {x \in S : x[col].t = "number"}}
  IN IF vals = {} THEN Null ELSE Num(100 * SetMin(vals))

MaxRound(S, col) ==
  LET vals == {r[col].n : r \in {x \in S : x[col].t = "number"}}
  IN IF vals = {} THEN Null ELSE Num(100 * SetMax(vals))

\* One row of getHourlyAverages: the group of hour k.
AverageRow(S, k) ==
  [hour |-> k,
   avg_temp |-> AvgRound(S, "temperature", 100),
   min_temp |-> MinRound(S, "temperature"),
   max_temp |-> MaxRound(S, "temperature"),
   avg_humidity |-> AvgRound(S, "humidity", 100),
   avg_pressure |-> AvgRound(S, "pressure", 1),
   measurements |-> Cardinality(S)]

\* getHourlyAverages: GROUP BY hour ORDER BY hour ASC over the window.
HourlyAverages(rows, sid, t, hours) ==
  LET win == WindowRows(rows, sid, t, hours)
      keys == {HourKey(Ts(r)) : r \in win}
      res == {AverageRow({r \in win : HourKey(Ts(r)) = k}, k) : k \in keys}
  IN {q \in [1..Cardinality(res) -> res] :
        \A i, j \in 1..Cardinality(res) : i < j => KeyLess(q[i].hour, q[j].hour)}

(***************************************************************************)
(* GET /:senderId, GET /:senderId/range and GET /:senderId/averages.       *)
(***************************************************************************)
\* The checks without the upper limit (a faulty variant).
ClampHoursUnlimited(raw, dflt, max) ==
  LET parsed == ParseNumber(raw)
      h == IF Truthy(parsed) THEN parsed.n ELSE dflt
  IN IF h < 1 THEN dflt ELSE h

\* let hours = parseInt(req.query.hours) || dflt; then the two checks.
ClampHours(raw, dflt, max) ==
  LET parsed == ParseNumber(raw)
      h == IF Truthy(parsed) THEN parsed.n ELSE dflt
  IN IF h < 1 THEN dflt ELSE IF h > max THEN max ELSE h

DefaultHours(kind) ==
  IF kind = "samples" THEN DefaultSampleHours ELSE DefaultRangeHours

GetQuery(p, kind, sid, raw) ==
  /\ CanStart(p)
  /\ nreq' = nreq + 1
  /\ Goto(p, "getSender",
          [Frame0 EXCEPT !.kind = kind, !.rid = nreq + 1, !.qsender = sid,
                         !.qhours = raw, !.senderId = sid,
                         !.hours = ClampHours(raw, DefaultHours(kind),
                                              MAX_HOURS_STANDARD)])
  /\ UNCHANGED <<store, now, script, startup>>

\* const sender = await getSender(senderId); if (!sender) -> 404
QueryGetSender(p) ==
  /\ pc[p] = "getSender"
  /\ IF SenderExists(senders, frame[p].senderId)
     THEN Goto(p, "query", frame[p])
     ELSE Goto(p, "done", Respond(frame[p], 404))
  /\ UNCHANGED <<store, now, nreq, script, startup>>

\* The aggregation statement, then the response.
QueryRun(p) ==
  /\ pc[p] = "query"
  /\ LET f == frame[p]
         results ==
           CASE f.kind = "samples" -> HourlySamples(weather_data, f.senderId, now, f.hours)
             [] f.kind = "range" -> WeatherDataRange(weather_data, f.senderId, now, f.hours)
             [] OTHER -> HourlyAverages(weather_data, f.senderId, now, f.hours)
     IN \E data \in results :
          Goto(p, "done", Respond([f EXCEPT !.data = data, !.at = now], 200))
  /\ UNCHANGED <<store, now, nreq, script, startup>>

(***************************************************************************)
(* updateSender (queries.js) and PUT /senders/:senderId (weather.js).      *)
(***************************************************************************)
UpdateFields == {"name", "location", "description", "is_active"}

\* The fields pushed to the SET clause: those with data.<field> !== undefined.
Supplied(d) == {c \in UpdateFields : d[c] # Undef}

\* The value a column holds after SET <column> = ?: name is kept as text,
\* is_active as a number, location and description as bound.
ColumnValue(c, v) ==
  CASE c = "name" -> v.s
    [] c = "is_active" -> v.n
    [] OTHER -> Bind(v)

\* SET over every field, supplied or not (a faulty variant).
UpdateAllFields(rows, sid, d) ==
  [j \in 1..Len(rows) |->
     IF rows[j].sender_id # sid THEN rows[j]
     ELSE [c \in DOMAIN rows[j] |->
             IF c \in UpdateFields /\ (c # "name" \/ d[c] # Undef)
             THEN ColumnValue(c, IF c = "is_active" /\ d[c] = Undef THEN Num(0) ELSE d[c])
             ELSE rows[j][c]]]

\* UPDATE senders SET <supplied fields> WHERE sender_id = ?
UpdateSender(rows, sid, d) ==
  [j \in 1..Len(rows) |->
     IF rows[j].sender_id # sid THEN rows[j]
     ELSE [c \in DOMAIN rows[j] |->
             IF c \in Supplied(d) THEN ColumnValue(c, d[c]) ELSE rows[j][c]]]

\* name TEXT NOT NULL: the statement is rejected when it sets name to NULL
\* in a row.
UpdateViolates(rows, sid, d) == d.name = Null /\ SenderExists(rows, sid)

\* The three validations of the route; senderId.trim() === '' for the ids
\* of the model is the id of blanks.
PutRejected(sid, d) ==
  \/ /\ ~Truthy(d.name) /\ ~Truthy(d.location) /\ ~Truthy(d.description)
     /\ d.is_active = Undef
  \/ sid \in {"", " "}
  \/ d.is_active # Undef /\ d.is_active \notin {Num(0), Num(1)}

PutSender(p, sid, d) ==
  /\ CanStart(p)
  /\ nreq' = nreq + 1
  /\ LET f == [Frame0 EXCEPT !.kind = "put", !.rid = nreq + 1, !.qsender = sid,
                             !.senderId = sid, !.ureq = d]
     IN IF PutRejected(sid, d)
        THEN Goto(p, "done", Respond(f, 400))
        ELSE Goto(p, "putGetSender", f)
  /\ UNCHANGED <<store, now, script, startup>>

\* const existingSender = await getSender(senderId); if (!existingSender) 404
PutGetSender(p) ==
  /\ pc[p] = "putGetSender"
  /\ IF SenderExists(senders, frame[p].senderId)
     THEN Goto(p, "updateSender", frame[p])
     ELSE Goto(p, "done", Respond(frame[p], 404))
  /\ UNCHANGED <<store, now, nreq, script, startup>>

\* A call of the exported updateSender(senderId, data) by another module.
CallUpdateSender(p, sid, d) ==
  /\ CanStart(p)
  /\ nreq' = nreq + 1
  /\ Goto(p, "updateSender",
          [Frame0 EXCEPT !.kind = "updateSender", !.rid = nreq + 1,
                         !.qsender = sid, !.senderId = sid, !.ureq = d])
  /\ UNCHANGED <<store, now, script, startup>>

\* updateSender: no statement when no field is supplied, else the UPDATE.
\* A rejected statement takes the route to its catch block and rejects the
\* promise of a direct call.
UpdateSenderStep(p) ==
  /\ pc[p] = "updateSender"
  /\ LET f == frame[p]
         rejected == Supplied(f.ureq) # {} /\ UpdateViolates(senders, f.senderId, f.ureq)
     IN /\ senders' = IF Supplied(f.ureq) = {} \/ rejected THEN senders
                      ELSE UpdateSender(senders, f.senderId, f.ureq)
        /\ IF f.kind = "put"
           THEN Goto(p, IF rejected THEN "putCatch" ELSE "putReload", f)
           ELSE Goto(p, "done",
                     Respond([f EXCEPT !.errors = IF rejected THEN <<"rejected">> ELSE <<>>], 0))
  /\ UNCHANGED <<weather_data, alerts, system_logs, weather_statistics, now,
                 nreq, script, startup>>

\* const updated = await getSender(senderId);
PutReload(p) ==
  /\ pc[p] = "putReload"
  /\ LET f == frame[p]
         found == {senders[j] : j \in {l \in 1..Len(senders) :
                                         senders[l].sender_id = f.senderId}}
     IN \E r \in found : Goto(p, "putLog", [f EXCEPT !.data = <<r>>])
  /\ UNCHANGED <<store, now, nreq, script, startup>>

\* await logEvent('info', 'sender_updated', ..., senderId); then 200.
PutLog(p) ==
  /\ pc[p] = "putLog"
  /\ system_logs' = Append(system_logs,
                           LogRow(Str(frame[p].senderId), "info", "sender_updated"))
  /\ Goto(p, "done", Respond(frame[p], 200))
  /\ UNCHANGED <<senders, weather_data, alerts, weather_statistics, now, nreq,
                 script, startup>>

\* catch: await logEvent('error', 'update_sender_failed', ..., senderId); 500.
PutCatch(p) ==
  /\ pc[p] = "putCatch"
  /\ system_logs' = Append(system_logs,
                           LogRow(Str(frame[p].senderId), "error", "update_sender_failed"))
  /\ Goto(p, "done", Respond(frame[p], 500))
  /\ UNCHANGED <<senders, weather_data, alerts, weather_statistics, now, nreq,
                 script, startup>>

(***************************************************************************)
(* GET /current/:senderId and getLatestWeatherData.                        *)
(***************************************************************************)
\* ORDER BY wd.id DESC LIMIT 1: the row inserted last (a faulty variant).
LastInsertedWeatherData(srows, rows, sid) ==
  {r \in RowsOf(rows, sid) :
     SenderExists(srows, sid) /\ \A x \in RowsOf(rows, sid) : r.id >= x.id}

\* SELECT wd.* ... FROM weather_data wd JOIN senders s ON wd.sender_id =
\* s.sender_id WHERE wd.sender_id = ? ORDER BY wd.unix_timestamp DESC LIMIT 1:
\* the rows the statement may return (any row of the largest timestamp).
LatestWeatherData(srows, rows, sid) ==
  {r \in RowsOf(rows, sid) :
     SenderExists(srows, sid) /\ \A x \in RowsOf(rows, sid) : Ts(r) >= Ts(x)}

GetCurrent(p, sid) ==
  /\ CanStart(p)
  /\ nreq' = nreq + 1
  /\ Goto(p, "currentSender",
          [Frame0 EXCEPT !.kind = "current", !.rid = nreq + 1, !.qsender = sid,
                         !.senderId = sid])
  /\ UNCHANGED <<store, now, script, startup>>

\* const sender = await getSender(senderId); if (!sender) -> 404
CurrentGetSender(p) ==
  /\ pc[p] = "currentSender"
  /\ IF SenderExists(senders, frame[p].senderId)
     THEN Goto(p, "latest", frame[p])
     ELSE Goto(p, "done", Respond(frame[p], 404))
  /\ UNCHANGED <<store, now, nreq, script, startup>>

\* const data = await getLatestWeatherData(senderId); if (!data) -> 404
CurrentLatest(p) ==
  /\ pc[p] = "latest"
  /\ LET f == frame[p]
         found == LatestWeatherData(senders, weather_data, f.senderId)
     IN IF found = {}
        THEN Goto(p, "done", Respond(f, 404))
        ELSE \E r \in found :
               Goto(p, "done", Respond([f EXCEPT !.data = <<r>>, !.at = now], 200))
  /\ UNCHANGED <<store, now, nreq, script, startup>>

(***************************************************************************)
(* calculateHourlyStats, getStatistics and GET /:senderId/statistics.      *)
(***************************************************************************)
\* The row calculateHourlyStats inserts (the columns the model keeps):
\* period_start is datetime(start, 'unixepoch'), a text that orders as the
\* time does, and data_points is COUNT(*) over unix_timestamp BETWEEN start
\* AND start + 3600.
StatisticsRow(rows, wrows, sid, start) ==
  [id |-> Len(rows) + 1, sender_id |-> sid, stat_type |-> "hourly",
   period_start |-> start,
   data_points |-> Cardinality({r \in RowsOf(wrows, sid) :
                                  Ts(r) >= start /\ Ts(r) <= start + HourSecs})]

\* calculateHourlyStats(senderId, startTime), called for a known sender
\* (the FOREIGN KEY rejects the insert for any other).
CalculateHourlyStats(sid, start) ==
  /\ Len(weather_statistics) < MaxRollups
  /\ SenderExists(senders, sid)
  /\ weather_statistics' =
       Append(weather_statistics,
              StatisticsRow(weather_statistics, weather_data, sid, start))
  /\ UNCHANGED <<senders, weather_data, alerts, system_logs, now, pc, frame,
                 nreq, script, startup>>

\* The orders in which ORDER BY period_start DESC may return the rows S.
RECURSIVE OrderedByPeriodDesc(_)
OrderedByPeriodDesc(S) ==
  IF S = {} THEN {<<>>}
  ELSE LET first == {r \in S : \A x \in S : r.period_start >= x.period_start}
       IN UNION {{<<r>> \o q : q \in OrderedByPeriodDesc(S \ {r})} : r \in first}

\* LIMIT ?: a negative limit is no limit.
Limit(q, limit) ==
  IF limit < 0 \/ limit >= Len(q) THEN q ELSE SubSeq(q, 1, limit)

\* getStatistics: SELECT * FROM weather_statistics WHERE sender_id = ? AND
\* stat_type = ? ORDER BY period_start DESC LIMIT ?
GetStatistics(rows, sid, statType, limit) ==
  {Limit(q, limit) :
     q \in OrderedByPeriodDesc({rows[j] : j \in {l \in 1..Len(rows) :
                                   /\ rows[l].sender_id = sid
                                   /\ rows[l].stat_type = statType}})}

\* const statType = req.query.type || 'hourly';
\* const limit = parseInt(req.query.limit) || 24;
GetStatisticsRequest(p, sid, type, rawLimit) ==
  /\ CanStart(p)
  /\ nreq' = nreq + 1
  /\ LET parsed == ParseNumber(rawLimit)
     IN Goto(p, "statisticsSender",
             [Frame0 EXCEPT !.kind = "statistics", !.rid = nreq + 1,
                            !.qsender = sid, !.senderId = sid,
                            !.statType = JsString(Or(type, Str("hourly"))),
                            !.qlimit = rawLimit,
                            !.limit = IF Truthy(parsed) THEN parsed.n
                                      ELSE DefaultLimit])
  /\ UNCHANGED <<store, now, script, startup>>

\* The statistics handler without its 404 (a faulty variant).
StatisticsSkipsSender(p) ==
  /\ pc[p] = "statisticsSender"
  /\ Goto(p, "statistics", frame[p])
  /\ UNCHANGED <<store, now, nreq, script, startup>>

\* const sender = await getSender(senderId); if (!sender) -> 404
StatisticsGetSender(p) ==
  /\ pc[p] = "statisticsSender"
  /\ IF SenderExists(senders, frame[p].senderId)
     THEN Goto(p, "statistics", frame[p])
     ELSE Goto(p, "done", Respond(frame[p], 404))
  /\ UNCHANGED <<store, now, nreq, script, startup>>

\* const stats = await getStatistics(senderId, statType, limit); then 200.
StatisticsRun(p) ==
  /\ pc[p] = "statistics"
  /\ LET f == frame[p]
     IN \E data \in GetStatistics(weather_statistics, f.senderId, f.statType, f.limit) :
          Goto(p, "done", Respond([f EXCEPT !.data = data, !.at = now], 200))
  /\ UNCHANGED <<store, now, nreq, script, startup>>

(***************************************************************************)
(* GET /visualization/data.                                                *)
(***************************************************************************)
\* The position of a sender name in ORDER BY name, for the names of the
\* seeding script; other names are left unordered among themselves.
NameRank(name) ==
  CASE name = "Dach Nord" -> 1
    [] name = "Klassenzimmer 101" -> 2
    [] name = "Schulgarten" -> 3
    [] OTHER -> 0

RECURSIVE OrderedByName(_)
OrderedByName(S) ==
  IF S = {} THEN {<<>>}
  ELSE LET first == {r \in S : \A x \in S : NameRank(r.name) <= NameRank(x.name)}
       IN UNION {{<<r>> \o q : q \in OrderedByName(S \ {r})} : r \in first}

\* getAllSenders: SELECT * FROM senders WHERE is_active = 1 ORDER BY name
GetAllSenders(rows) ==
  OrderedByName({rows[j] : j \in {l \in 1..Len(rows) : rows[l].is_active = 1}})

\* let hours = parseInt(req.query.hours) || 24; then the two checks.
GetVisualization(p, raw) ==
  /\ CanStart(p)
  /\ nreq' = nreq + 1
  /\ Goto(p, "getAllSenders",
          [Frame0 EXCEPT !.kind = "visualization", !.rid = nreq + 1,
                         !.qhours = raw,
                         !.hours = ClampHours(raw, DefaultRangeHours,
                                              MAX_HOURS_VISUALIZATION)])
  /\ UNCHANGED <<store, now, script, startup>>

\* const senders = await getAllSenders();
VisualizationSenders(p) ==
  /\ pc[p] = "getAllSenders"
  /\ \E list \in GetAllSenders(senders) :
       LET f == [frame[p] EXCEPT
                   !.vsenders = [j \in 1..Len(list) |-> list[j].sender_id],
                   !.i = 1]
       IN IF list = <<>> THEN Goto(p, "done", Respond(f, 200))
          ELSE Goto(p, "visualizationRange", f)
  /\ UNCHANGED <<store, now, nreq, script, startup>>

\* const data = await getWeatherDataRange(sender.sender_id, hours), once per
\* sender, then the response.
VisualizationRange(p) ==
  /\ pc[p] = "visualizationRange"
  /\ LET f == frame[p]
         sid == f.vsenders[f.i]
     IN \E data \in WeatherDataRange(weather_data, sid, now, f.hours) :
          LET g == [f EXCEPT !.viz = Append(@, [sender |-> sid, dataPoints |-> data]),
                             !.at = now]
          IN IF f.i < Len(f.vsenders)
             THEN Goto(p, "visualizationRange", [g EXCEPT !.i = @ + 1])
             ELSE Goto(p, "done", Respond(g, 200))
  /\ UNCHANGED <<store, now, nreq, script, startup>>

(***************************************************************************)
(* scripts/insertTestData.js: the senders one after the other, then per    *)
(* sender the insertWeatherData calls of one loop issued together and      *)
(* awaited with Promise.all (ScriptReadings of them in place of 24), then  *)
(* the alerts one after the other.                                         *)
(***************************************************************************)
ScriptSenders ==
  << [id |-> "1", name |-> "Schulgarten"],
     [id |-> "2", name |-> "Dach Nord"],
     [id |-> "H001", name |-> "Klassenzimmer 101"] >>

ScriptAlerts ==
  << [sender_id |-> "1", alert_type |-> "temperature", condition |-> "above",
      threshold_value |-> 30],
     [sender_id |-> "1", alert_type |-> "humidity", condition |-> "below",
      threshold_value |-> 20],
     [sender_id |-> "1", alert_type |-> "battery", condition |-> "below",
      threshold_value |-> 15],
     [sender_id |-> "H001", alert_type |-> "temperature", condition |-> "above",
      threshold_value |-> 26] >>

\* The payload of call i (0-based) of a loop started at time t; the random
\* sensor values are represented by one value of their range each.
ScriptBody(j, i, t) ==
  [EmptyBody EXCEPT !.temperature = Num(15 + j), !.humidity = Num(70),
                    !.pressure = Num(1013),
                    !.battery_level = IF j = 1 THEN Num(95) ELSE Undef,
                    !.unix = Num(t - i * HourSecs),
                    !.name = Str(ScriptSenders[j].name)]

Script0 == [pc |-> "start", j |-> 0, t |-> 0, tasks |-> <<>>]

\* await ensureSender(id, name), three times.
ScriptEnsureSender ==
  /\ script.pc \in {"start", "senders"}
  /\ script.pc = "start" => nreq = 0
  /\ LET j == script.j + 1
         after == InsertOrIgnoreSender(senders, ScriptSenders[j].id,
                                       ScriptSenders[j].name)
     IN /\ senders' = after
        /\ system_logs' = LogNewSender(system_logs, senders, after)
        /\ script' =
             IF j < Len(ScriptSenders)
             THEN [script EXCEPT !.pc = "senders", !.j = j]
             ELSE [pc |-> "data", j |-> 1, t |-> now,
                   tasks |-> [i \in 1..ScriptReadings |-> "ensureSender"]]
  /\ UNCHANGED <<weather_data, alerts, weather_statistics, now, pc, frame, nreq, startup>>

\* One of the pending insertWeatherData calls: its ensureSender.
ScriptTaskEnsure(i) ==
  /\ script.pc = "data"
  /\ i \in 1..Len(script.tasks)
  /\ script.tasks[i] = "ensureSender"
  /\ LET after == InsertOrIgnoreSender(senders, ScriptSenders[script.j].id,
                                       ScriptSenders[script.j].name)
     IN /\ senders' = after
        /\ system_logs' = LogNewSender(system_logs, senders, after)
  /\ script' = [script EXCEPT !.tasks[i] = "insert"]
  /\ UNCHANGED <<weather_data, alerts, weather_statistics, now, pc, frame, nreq, startup>>

\* One of the pending insertWeatherData calls: its INSERT.  When the last
\* one is done Promise.all resolves and the next loop, or the alerts, follow.
ScriptTaskInsert(i) ==
  /\ script.pc = "data"
  /\ i \in 1..Len(script.tasks)
  /\ script.tasks[i] = "insert"
  /\ weather_data' =
       Append(weather_data,
              ReadingRow(weather_data, ScriptSenders[script.j].id,
                         ScriptBody(script.j, i - 1, script.t), now))
  /\ LET tasks == [script.tasks EXCEPT ![i] = "done"]
     IN script' =
          IF \E l \in 1..Len(tasks) : tasks[l] # "done"
          THEN [script EXCEPT !.tasks = tasks]
          ELSE IF script.j < Len(ScriptSenders)
               THEN [script EXCEPT !.j = @ + 1,
                       !.tasks = [l \in 1..ScriptReadings |-> "ensureSender"]]
               ELSE [pc |-> "alerts", j |-> 0, t |-> script.t, tasks |-> <<>>]
  /\ UNCHANGED <<senders, alerts, system_logs, weather_statistics, now, pc, frame, nreq, startup>>

\* await createAlert({...}), four times, then db.close and process.exit.
ScriptCreateAlert ==
  /\ script.pc = "alerts"
  /\ LET j == script.j + 1
         a == ScriptAlerts[j]
     IN /\ alerts' = Append(alerts, AlertRow(alerts, a.sender_id, a.alert_type,
                                            a.condition, a.threshold_value))
        /\ script' = IF j < Len(ScriptAlerts)
                     THEN [script EXCEPT !.j = j]
                     ELSE [Script0 EXCEPT !.pc = "closed"]
  /\ UNCHANGED <<senders, weather_data, system_logs, weather_statistics, now, pc, frame, nreq, startup>>

\* A call of the exported createAlert(alertData) by another module, as
\* the seeding script makes it, for a registered sender (FOREIGN KEY).
CallCreateAlert(a) ==
  /\ Len(alerts) < MaxRules
  /\ SenderExists(senders, a.sender_id)
  /\ alerts' = Append(alerts, AlertRow(alerts, a.sender_id, a.alert_type,
                                      a.condition, a.threshold_value))
  /\ UNCHANGED <<senders, weather_data, system_logs, weather_statistics, now,
                 pc, frame, nreq, script, startup>>

(***************************************************************************)
(* Requests of the model.                                                  *)
(***************************************************************************)
Body(id, temperature) ==
  [EmptyBody EXCEPT !.id = id, !.temperature = temperature]

AlertBody(sid, type, cond, threshold) ==
  [sender_id |-> sid, alert_type |-> type, condition |-> cond,
   threshold_value |-> threshold]

SingleBodies ==
  { Body(Num(1), Num(20)), Body(Num(1), Num(31)), Body(Undef, Num(20)),
    Body(Num(2), Str("bad")) }

ExampleBatch ==
  << Body(Num(1), Num(20)), Body(Num(InvalidId), Undef), Body(Num(2), Str("bad")) >>

\* A batch whose first entry has no id and whose last one has the id -1.
SkipBatch ==
  << Body(Undef, Num(20)), Body(Num(1), Num(31)), Body(Num(InvalidId), Num(20)) >>

Batches ==
  { [isArray |-> TRUE, entries |-> ExampleBatch],
    [isArray |-> TRUE, entries |-> SkipBatch],
    [isArray |-> TRUE, entries |-> <<>>],
    [isArray |-> FALSE, entries |-> <<>>] }

\* Payloads for sender 1 that differ in the temperature they carry.
EvalBodies ==
  { Body(Num(1), v) : v \in {Undef, Null, Num(20), Num(30), Num(31), Str("bad")} }

AlertBodies ==
  { AlertBody(Str("1"), Str("temperature"), Str(">"), Num(30)),
    AlertBody(Str("1"), Str("temperature"), Str(">"), Str("12abc")),
    AlertBody(Str("1"), Str("invalid_type"), Str(">"), Num(30)),
    AlertBody(Str("1"), Str("temperature"), Str("above"), Num(30)),
    AlertBody(Str("1"), Str("temperature"), Str(">"), Str("abc")),
    AlertBody(Str("1"), Str("temperature"), Str(">"), Null),
    AlertBody(Str("1"), Str("battery"), Str("<"), Num(15)),
    AlertBody(Str("1"), Str("temperature"), Str(">"), Str("Infinity")),
    AlertBody(Undef, Str("temperature"), Str(">"), Num(30)) }

(***************************************************************************)
(* Specifications.                                                         *)
(***************************************************************************)
Init ==
  /\ senders = <<>>
  /\ weather_data = <<>>
  /\ alerts = <<>>
  /\ system_logs = <<>>
  /\ weather_statistics = <<>>
  /\ now = T0
  /\ pc = [p \in Procs |-> "idle"]
  /\ frame = [p \in Procs |-> Frame0]
  /\ nreq = 0
  /\ script = Script0
  /\ startup = Initialized

\* The steps of the handlers of POST /, POST /batch and POST /alerts.
HandlerStep(p) ==
  \/ EnsureSender(p)
  \/ InsertReading(p)
  \/ LoadAlerts(p)
  \/ UpdateAlert(p)
  \/ LogEvent(p)
  \/ CreateAlert(p)

\* The steps of the seeding script.
ScriptStep ==
  \/ ScriptEnsureSender
  \/ \E i \in 1..ScriptReadings : ScriptTaskEnsure(i)
  \/ \E i \in 1..ScriptReadings : ScriptTaskInsert(i)
  \/ ScriptCreateAlert

\* Ingestion: the seeding script, then two requests in flight at a time.
Next ==
  \/ nreq < MaxRequests /\ \E p \in Procs, b \in SingleBodies : PostSingle(p, b)
  \/ nreq < MaxRequests
       /\ \E p \in Procs, b \in Batches : PostBatch(p, b.isArray, b.entries)
  \/ \E p \in Procs : EnsureSender(p)
  \/ \E p \in Procs : InsertReading(p)
  \/ \E p \in Procs : LoadAlerts(p)
  \/ \E p \in Procs : UpdateAlert(p)
  \/ \E p \in Procs : LogEvent(p)
  \/ ScriptStep

Spec == Init /\ [][Next]_vars

\* Alert rules: the seeding script, then ingestion and rule creation, one
\* request after the other, while time passes.
NextAlerts ==
  \/ nreq < MaxRequests /\ \E b \in EvalBodies : PostSingle(1, b)
  \/ nreq < MaxRequests /\ \E b \in AlertBodies : PostAlerts(1, b)
  \/ HandlerStep(1)
  \/ ScriptStep
  \/ Tick(1, MaxTicks)

SpecAlerts == Init /\ [][NextAlerts]_vars

\* Readings that carry the pressure under its four field names, with absent,
\* null, zero and positive values.
PressureBody(pressure, bar, gasval, gas_value) ==
  [Body(Num(1), Num(31)) EXCEPT !.pressure = pressure, !.bar = bar,
                                !.gasval = gasval, !.gas_value = gas_value]

PressureBodies ==
  { PressureBody(a, b, c, d) : a \in {Undef, Null, Num(0), Num(1)},
                               b \in {Undef, Num(0), Num(2)},
                               c \in {Undef, Num(5)},
                               d \in {Undef, Num(30)} }

\* Pressure normalisation: the seeding script, then single ingestions, one
\* after the other.
NextPressure ==
  \/ nreq < MaxPressureRequests /\ \E b \in PressureBodies : PostSingle(1, b)
  \/ EnsureSender(1)
  \/ InsertReading(1)
  \/ LoadAlerts(1)
  \/ UpdateAlert(1)
  \/ LogEvent(1)
  \/ ScriptStep

SpecPressure == Init /\ [][NextPressure]_vars

\* Requests of the aggregation specification: readings of sender A at three
\* times in two calendar hours, with and without a temperature, one reading
\* of sender B, and the three readings of the two-bucket scenario at once.
QueryTimes == {T0, T0 + HourSecs \div 2, T0 + HourSecs + 100}

QueryBody(id, ts, temperature) ==
  [EmptyBody EXCEPT !.id = Str(id), !.unix = Num(ts), !.temperature = temperature]

QueryBodies ==
  { QueryBody("A", ts, v) : ts \in QueryTimes, v \in {Undef, Num(20), Num(21)} }
    \cup { QueryBody("B", T0 + HourSecs \div 2, Num(21)) }

ScenarioBatch ==
  << QueryBody("A", T0, Num(20)), QueryBody("A", T0 + HourSecs \div 2, Num(21)),
     QueryBody("A", T0 + HourSecs + 100, Num(21)) >>

QueryHours == {Undef, Str("1"), Str("2")}

\* Aggregation: ingestions and queries, one request after the other, while
\* time passes in steps of half an hour.
NextQuery ==
  \/ nreq < MaxQueryRequests /\ \E b \in QueryBodies : PostSingle(1, b)
  \/ nreq < MaxQueryRequests /\ PostBatch(1, TRUE, ScenarioBatch)
  \/ nreq < MaxQueryRequests
       /\ \E kind \in {"samples", "range", "averages"}, sid \in {"A", "B"},
             raw \in QueryHours : GetQuery(1, kind, sid, raw)
  \/ EnsureSender(1)
  \/ InsertReading(1)
  \/ LoadAlerts(1)
  \/ QueryGetSender(1)
  \/ QueryRun(1)
  \/ Tick(HourSecs \div 2, MaxHalfHours)

SpecQuery == Init /\ [][NextQuery]_vars

\* The texts of the hours parameter: absent, empty, not numeric, with a
\* numeric prefix, and the decimal texts of HourValues.
HourValues == {-5, 0, 1, 5, 168, 169, 720, 721, 100000}

HourText(n) == IF n < 0 THEN "-" \o NatToString(-n) ELSE NatToString(n)

HourQueries ==
  {Undef, Str(""), Str("abc"), Str("12abc")} \cup {Str(HourText(n)) : n \in HourValues}

\* The hours parameter: the seeding script, then the three aggregation
\* queries of a sender and the visualization query.
NextHours ==
  \/ nreq < MaxHourRequests
       /\ \E kind \in {"samples", "range", "averages"}, sid \in {"1", "A"},
             raw \in HourQueries : GetQuery(1, kind, sid, raw)
  \/ nreq < MaxHourRequests /\ \E raw \in HourQueries : GetVisualization(1, raw)
  \/ QueryGetSender(1)
  \/ QueryRun(1)
  \/ VisualizationSenders(1)
  \/ VisualizationRange(1)
  \/ ScriptStep

SpecHours == Init /\ [][NextHours]_vars

\* Readings of sender A at three times and one reading of sender B.
LatestBodies ==
  { QueryBody("A", ts, Num(20)) : ts \in QueryTimes }
    \cup { QueryBody("B", T0 + HourSecs \div 2, Num(21)) }

\* The latest reading: ingestions in any order of their timestamps on one
\* connection, queries for the latest reading on another.
NextLatest ==
  \/ nreq < MaxLatestRequests /\ \E b \in LatestBodies : PostSingle(1, b)
  \/ nreq < MaxLatestRequests /\ \E sid \in {"A", "B"} : GetCurrent(2, sid)
  \/ EnsureSender(1)
  \/ InsertReading(1)
  \/ LoadAlerts(1)
  \/ CurrentGetSender(2)
  \/ CurrentLatest(2)

SpecLatest == Init /\ [][NextLatest]_vars

\* The limit parameter: absent, not numeric, and the decimal texts of
\* LimitValues.
LimitValues == {-5, 0, 1, 2}

LimitQueries == {Undef, Str("abc")} \cup {Str(HourText(n)) : n \in LimitValues}

\* Statistics: the seeding script, hourly rollups of senders 1 and 2 for two
\* hours, and the statistics query.
NextStats ==
  \/ \E sid \in {"1", "2"}, start \in {T0 - HourSecs, T0} :
       CalculateHourlyStats(sid, start)
  \/ nreq < MaxStatRequests
       /\ \E sid \in {"1", "A"}, type \in {Undef, Str("daily")},
             raw \in LimitQueries : GetStatisticsRequest(1, sid, type, raw)
  \/ StatisticsGetSender(1)
  \/ StatisticsRun(1)
  \/ ScriptStep

SpecStats == Init /\ [][NextStats]_vars

\* Readings of sender 1 without a name and with one.
NamedBody(name) ==
  [Body(Num(1), Num(20)) EXCEPT !.name = name]

NamedBodies == {NamedBody(Undef), NamedBody(Str("Garten"))}

Update(name, location, description, is_active) ==
  [name |-> name, location |-> location, description |-> description,
   is_active |-> is_active]

\* Data of updateSender with each field alone, with two fields, with no
\* field and with a null name.
DirectUpdates ==
  { EmptyUpdate,
    Update(Str("Neu"), Undef, Undef, Undef),
    Update(Undef, Str("Hof"), Undef, Undef),
    Update(Undef, Undef, Str("Text"), Undef),
    Update(Undef, Undef, Undef, Num(0)),
    Update(Str("Neu"), Undef, Undef, Num(0)),
    Update(Null, Undef, Undef, Num(0)),
    Update(Undef, Null, Str("Text"), Undef) }

\* Bodies of PUT /senders/:senderId: the above and an is_active that is
\* neither boolean nor 0 or 1.
UpdateBodies == DirectUpdates \cup {Update(Undef, Undef, Undef, Str("bad"))}

\* Senders: ingestions that register sender 1, updates through the route
\* and through updateSender, for sender 1 and for a sender 9 that nothing
\* registers, one request after the other.
NextSenders ==
  \/ nreq < MaxSenderRequests /\ \E b \in NamedBodies : PostSingle(1, b)
  \/ nreq < MaxSenderRequests
       /\ \E sid \in {"1", "9"}, d \in UpdateBodies : PutSender(1, sid, d)
  \/ nreq < MaxSenderRequests
       /\ \E sid \in {"1", "9"}, d \in DirectUpdates : CallUpdateSender(1, sid, d)
  \/ EnsureSender(1)
  \/ InsertReading(1)
  \/ LoadAlerts(1)
  \/ PutGetSender(1)
  \/ UpdateSenderStep(1)
  \/ PutReload(1)
  \/ PutLog(1)
  \/ PutCatch(1)

SpecSenders == Init /\ [][NextSenders]_vars

(***************************************************************************)
(* The batch loop as a function of the store and the entries: what the     *)
(* loop of POST /batch does to senders, readings, rules and the processed  *)
(* count when it runs alone and no statement fails.                        *)
(***************************************************************************)
\* One pass of the loop body for entry e, entered at the given await:
\* ensureSender and the INSERT of insertWeatherData, then checkAlerts with
\* its UPDATE per firing rule, then processedCount++.
EntryOutcome(st, e, stage) ==
  IF Skipped(e) THEN st
  ELSE LET sid == JsString(e.id)
           senderName == JsString(Or(e.name, Str("Sender " \o sid)))
       IN [senders |->
             IF stage = "ensureSender"
             THEN InsertOrIgnoreSender(st.senders, sid, senderName)
             ELSE st.senders,
           weather_data |->
             IF stage \in {"ensureSender", "insert"}
             THEN Append(st.weather_data, ReadingRow(st.weather_data, sid, e, now))
             ELSE st.weather_data,
           alerts |->
             [l \in 1..Len(st.alerts) |->
                IF /\ st.alerts[l].sender_id = sid
                   /\ st.alerts[l].is_active = 1
                   /\ ShouldTrigger(st.alerts[l], e)
                THEN [st.alerts[l] EXCEPT !.last_triggered = Num(now)]
                ELSE st.alerts[l]],
           processed |-> st.processed + 1]

RECURSIVE BatchOutcome(_, _, _, _)
BatchOutcome(st, entries, i, stage) ==
  IF i > Len(entries) THEN st
  ELSE BatchOutcome(EntryOutcome(st, entries[i], stage), entries, i + 1,
                    "ensureSender")

\* The store and the count a batch handler f has reached.
Reached(f, srows, wrows, arows) ==
  [senders |-> srows, weather_data |-> wrows, alerts |-> arows,
   processed |-> f.processed]

\* The outcome of the batch of a handler that stands at label l.
OutcomeFrom(l, f, srows, wrows, arows) ==
  IF l \in {"ensureSender", "insert"}
  THEN BatchOutcome(Reached(f, srows, wrows, arows), f.entries, f.i, l)
  ELSE IF l \in {"getAlerts", "update"}
       THEN BatchOutcome(Reached(f, srows, wrows, arows), f.entries, f.i,
                         "checkAlerts")
       ELSE Reached(f, srows, wrows, arows)

\* What persists of an outcome: the senders with their names, the readings
\* (as a bag, without their row ids), the rules that have fired and the
\* processed count.
StripId(r) == [r EXCEPT !.id = 0]

Persisted(st) ==
  [senders |-> {<<st.senders[l].sender_id, st.senders[l].name>> :
                  l \in 1..Len(st.senders)},
   readings |-> [x \in {StripId(st.weather_data[l]) : l \in 1..Len(st.weather_data)} |->
                   Cardinality({l \in 1..Len(st.weather_data) :
                                  StripId(st.weather_data[l]) = x})],
   fired |-> {l \in 1..Len(st.alerts) : st.alerts[l].last_triggered # Null},
   processed |-> st.processed]

\* The orders of the entries of a batch.
Orders(entries) ==
  {[l \in 1..Len(entries) |-> entries[pi[l]]] :
     pi \in {f \in [1..Len(entries) -> 1..Len(entries)] :
               \A a, b \in 1..Len(entries) : a # b => f[a] # f[b]}}

\* Two readings of a sender 7 that nothing has registered, with different
\* names, and a reading of sender 1 that exceeds the seeded threshold.
NameBatch ==
  << [Body(Num(7), Num(20)) EXCEPT !.name = Str("Alpha")],
     [Body(Num(7), Num(20)) EXCEPT !.name = Str("Beta")],
     Body(Num(1), Num(31)) >>

\* Permuted batches: the seeding script or an empty store, then one batch
\* in any order of its entries.
NextPermute ==
  \/ nreq < MaxPermuteRequests
       /\ \E b \in Orders(NameBatch) : PostBatch(1, TRUE, b)
  \/ EnsureSender(1)
  \/ InsertReading(1)
  \/ LoadAlerts(1)
  \/ UpdateAlert(1)
  \/ LogEvent(1)
  \/ ScriptStep

SpecPermute == Init /\ [][NextPermute]_vars

\* Unknown senders: ingestions for sender 1, and the read and management
\* operations for sender 1 and for a sender 9 that nothing registers, one
\* request after the other.
NextUnknown ==
  \/ nreq < MaxUnknownRequests /\ PostSingle(1, Body(Num(1), Num(20)))
  \/ nreq < MaxUnknownRequests
       /\ \E kind \in {"samples", "range", "averages"}, sid \in {"1", "9"} :
            GetQuery(1, kind, sid, Undef)
  \/ nreq < MaxUnknownRequests /\ \E sid \in {"1", "9"} : GetCurrent(1, sid)
  \/ nreq < MaxUnknownRequests
       /\ \E sid \in {"1", "9"} : GetStatisticsRequest(1, sid, Undef, Undef)
  \/ nreq < MaxUnknownRequests
       /\ \E sid \in {"1", "9"}, d \in UpdateBodies : PutSender(1, sid, d)
  \/ EnsureSender(1)
  \/ InsertReading(1)
  \/ LoadAlerts(1)
  \/ QueryGetSender(1)
  \/ QueryRun(1)
  \/ CurrentGetSender(1)
  \/ CurrentLatest(1)
  \/ StatisticsGetSender(1)
  \/ StatisticsRun(1)
  \/ PutGetSender(1)
  \/ UpdateSenderStep(1)
  \/ PutReload(1)
  \/ PutLog(1)
  \/ PutCatch(1)

SpecUnknown == Init /\ [][NextUnknown]_vars

\* A pressure rule in the word form checkAlerts evaluates.
PressureRule ==
  [sender_id |-> "1", alert_type |-> "pressure", condition |-> "above",
   threshold_value |-> 3]

\* Readings with the pressure under its four names, and one with a
\* pressure field above the threshold of the rule.
LegacyBodies == PressureBodies \cup {PressureBody(Num(5), Undef, Undef, Undef)}

\* Legacy pressure fields: readings of sender 1 that carry the pressure
\* under any of its names, a pressure rule created for the sender, one
\* request after the other.
NextLegacy ==
  \/ nreq < MaxLegacyRequests /\ \E b \in LegacyBodies : PostSingle(1, b)
  \/ CallCreateAlert(PressureRule)
  \/ EnsureSender(1)
  \/ InsertReading(1)
  \/ LoadAlerts(1)
  \/ UpdateAlert(1)
  \/ LogEvent(1)

SpecLegacy == Init /\ [][NextLegacy]_vars

\* Payloads for senders 1 (seeded with a rule) and 2.
FaultBodies == { Body(Num(1), Num(31)), Body(Num(2), Num(20)) }

FaultBatch == << Body(Num(1), Num(31)), Body(Num(2), Num(20)), Body(Num(1), Num(20)) >>

FaultAlertBody == AlertBody(Str("1"), Str("temperature"), Str(">"), Num(30))

\* Storage errors: the seeding script or a fresh database, then ingestions
\* and a rule creation, one request after the other, in which statements
\* may be rejected.
NextFaults ==
  \/ nreq < MaxFaultRequests /\ \E b \in FaultBodies : PostSingle(1, b)
  \/ nreq < MaxFaultRequests /\ PostBatch(1, TRUE, FaultBatch)
  \/ nreq < MaxFaultRequests /\ PostAlerts(1, FaultAlertBody)
  \/ HandlerStep(1)
  \/ StatementFails(1)
  \/ CatchLog(1)
  \/ CatchLogFails(1)
  \/ ScriptStep

SpecFaults == Init /\ [][NextFaults]_vars

\* Batch accounting: the seeding script or a fresh database, then one
\* batch, among them one whose second entry is the JSON value null.
MaxAccountRequests == 1

NullBatch == << Body(Num(1), Num(31)), Null, Body(Num(2), Num(20)) >>

AccountBatches == {FaultBatch, SkipBatch, NullBatch}

NextAccounting ==
  \/ nreq < MaxAccountRequests /\ \E b \in AccountBatches : PostBatch(1, TRUE, b)
  \/ EnsureSender(1)
  \/ InsertReading(1)
  \/ LoadAlerts(1)
  \/ UpdateAlert(1)
  \/ LogEvent(1)
  \/ CatchLog(1)
  \/ ScriptStep

SpecAccounting == Init /\ [][NextAccounting]_vars

\* The event loop runs every continuation that is ready: a handler that
\* can take a step (the statement it awaits resolves or rejects) takes one.
FaultStep(p) ==
  HandlerStep(p) \/ StatementFails(p) \/ CatchLog(p) \/ CatchLogFails(p)

SpecFaultsFair == SpecFaults /\ WF_vars(FaultStep(1))

(***************************************************************************)
(* Start-up on a fresh database file (app.js, db.js).  db.js opens the     *)
(* database and starts initializeDatabase from the callback of the open;   *)
(* app.js calls listen without waiting for it.  executeSqlFile awaits each *)
(* statement, so the statements of the handlers interleave with them.  A   *)
(* statement issued before the database is open is queued by the driver    *)
(* and runs once it is open.                                               *)
(***************************************************************************)
MaxStartupRequests == 3

Exists(name) ==
  \E j \in 1..startup.executed : SchemaStatements[j] = name

\* The table a statement of a handler reads or writes.
TableOf(l) ==
  CASE l = "ensureSender" -> "senders"
    [] l = "insert" -> "weather_data"
    [] l \in {"getAlerts", "update", "createAlert"} -> "alerts"
    [] OTHER -> "system_logs"

\* http.createServer(server).listen(PORT, HOST, ...)
Listen ==
  /\ ~startup.listening
  /\ startup' = [startup EXCEPT !.listening = TRUE]
  /\ UNCHANGED <<store, now, pc, frame, nreq, script>>

\* The callback of new sqlite3.Database: initializeDatabase() is called.
Connected ==
  /\ startup.db = "connecting"
  /\ startup' = [startup EXCEPT !.db = "schema"]
  /\ UNCHANGED <<store, now, pc, frame, nreq, script>>

\* One awaited db.run of executeSqlFile(schemaPath, 'Schema').
SchemaStatement ==
  /\ startup.db = "schema"
  /\ LET n == startup.executed + 1
     IN startup' = [startup EXCEPT !.executed = n,
                      !.db = IF n = Len(SchemaStatements) THEN "indexes" ELSE @]
  /\ UNCHANGED <<store, now, pc, frame, nreq, script>>

\* Step 2 of initializeDatabase: the index file, if there is one.
IndexStatements ==
  /\ startup.db = "indexes"
  /\ startup' = [startup EXCEPT !.db = "complete"]
  /\ UNCHANGED <<store, now, pc, frame, nreq, script>>

\* ensureSender in a database that has the senders table and not yet the
\* trigger log_new_sender: no row is written to system_logs.
EnsureSenderNoTrigger(p) ==
  /\ pc[p] = "ensureSender"
  /\ LET f == frame[p]
         d == f.entries[f.i]
         senderName == JsString(Or(d.name, Str("Sender " \o f.senderId)))
     IN /\ senders' = InsertOrIgnoreSender(senders, f.senderId, senderName)
        /\ Goto(p, "insert", f)
  /\ UNCHANGED <<weather_data, alerts, system_logs, weather_statistics, now,
                 nreq, script, startup>>

\* A statement of a handler runs once the database is open: on the table
\* it names if the table exists, and it is rejected ("no such table")
\* otherwise.
StartupStatement(p) ==
  /\ startup.db # "connecting"
  /\ \/ Exists("senders") /\ Exists("log_new_sender") /\ EnsureSender(p)
     \/ Exists("senders") /\ ~Exists("log_new_sender") /\ EnsureSenderNoTrigger(p)
     \/ Exists("weather_data") /\ InsertReading(p)
     \/ Exists("alerts") /\ LoadAlerts(p)
     \/ Exists("alerts") /\ UpdateAlert(p)
     \/ Exists("alerts") /\ CreateAlert(p)
     \/ Exists("system_logs") /\ LogEvent(p)
     \/ Exists("system_logs") /\ CatchLog(p)
     \/ ~Exists(TableOf(pc[p])) /\ StatementFails(p)
     \/ ~Exists("system_logs") /\ CatchLogFails(p)

\* Start-up of the server on a fresh database, with ingestions and a rule
\* creation arriving as soon as the server listens, and the first rule of
\* the seeding script created by a direct call.
InitStartup ==
  /\ senders = <<>>
  /\ weather_data = <<>>
  /\ alerts = <<>>
  /\ system_logs = <<>>
  /\ weather_statistics = <<>>
  /\ now = T0
  /\ pc = [p \in Procs |-> "idle"]
  /\ frame = [p \in Procs |-> Frame0]
  /\ nreq = 0
  /\ script = Script0
  /\ startup = Startup0

NextStartup ==
  \/ Listen
  \/ Connected
  \/ SchemaStatement
  \/ IndexStatements
  \/ startup.listening /\ nreq < MaxStartupRequests
       /\ \E b \in FaultBodies : PostSingle(1, b)
  \/ startup.listening /\ nreq < MaxStartupRequests
       /\ PostAlerts(1, FaultAlertBody)
  \/ startup.db # "connecting" /\ Exists("alerts")
       /\ CallCreateAlert(ScriptAlerts[1])
  \/ StartupStatement(1)

SpecStartup == InitStartup /\ [][NextStartup]_vars

(***************************************************************************)
(* Properties.                                                             *)
(***************************************************************************)
SenderRows(sid) == {j \in 1..Len(senders) : senders[j].sender_id = sid}

\* The sender identifiers whose ensureSender has been executed.
Ingested ==
  {weather_data[j].sender_id : j \in 1..Len(weather_data)}
    \cup {frame[p].senderId : p \in {q \in Procs :
            frame[q].kind \in {"single", "batch"}
            /\ pc[q] \in {"insert", "getAlerts", "update"}}}
    \cup {ScriptSenders[script.j].id : i \in {l \in 1..Len(script.tasks) :
            script.pc = "data" /\ script.tasks[l] # "ensureSender"}}

\* C1: after any interleaving of single, batch and script ingestions the
\* store holds exactly one sender row for every ingested sender identifier
\* (and never two rows with the same identifier), and the reading of every
\* answered single ingestion is stored under its sender.
C1_OneSenderPerIngestedId ==
  /\ \A sid \in Ingested : Cardinality(SenderRows(sid)) = 1
  /\ \A j \in 1..Len(senders) : Cardinality(SenderRows(senders[j].sender_id)) = 1
  /\ \A p \in Procs :
       (pc[p] = "done" /\ frame[p].kind = "single" /\ frame[p].status = 200) =>
         \E j \in 1..Len(weather_data) :
           /\ weather_data[j].id = frame[p].lastID
           /\ weather_data[j].sender_id = frame[p].senderId

\* Two concurrent ingestions for the same, previously unseen sender have
\* both executed ensureSender before any reading of that sender is stored.
C1_Witness ==
  /\ pc[1] = "insert" /\ pc[2] = "insert"
  /\ frame[1].senderId = frame[2].senderId
  /\ Cardinality(SenderRows(frame[1].senderId)) = 1
  /\ \A j \in 1..Len(weather_data) : weather_data[j].sender_id # frame[1].senderId

\* The rules of the sender of a finished single ingestion that the claim is
\* about: active, condition 'above' (value exceeds threshold).
ExceedsRules(f) ==
  {j \in 1..Len(alerts) :
     /\ alerts[j].sender_id = f.senderId
     /\ alerts[j].is_active = 1
     /\ alerts[j].condition = "above"}

InList(x, list) == \E j \in 1..Len(list) : list[j] = x

\* The payload field a rule of the given type is about.
FieldOfType(type, d) ==
  CASE type = "temperature" -> d.temperature
    [] type = "humidity" -> d.humidity
    [] type = "pressure" -> d.pressure
    [] OTHER -> d.battery_level

\* C2: an active 'exceeds' rule (threshold 30 in the seeded data) fires on
\* an ingested reading of its sender if and only if the field of its type
\* is present and strictly greater than the threshold; not when the field is
\* null or absent, equal to or below the threshold.
C2_ExceedsFiresIffGreater ==
  \A p \in Procs :
    (pc[p] = "done" /\ frame[p].kind = "single" /\ frame[p].status = 200) =>
      \A j \in ExceedsRules(frame[p]) :
        LET v == FieldOfType(alerts[j].alert_type, frame[p].entries[1])
        IN InList(alerts[j].id, frame[p].triggered)
             <=> (v.t = "number" /\ v.n > alerts[j].threshold_value)

\* A reading with temperature 31 has fired the seeded rule
\* (sender 1, temperature, above, 30).
C2_Witness ==
  /\ pc[1] = "done" /\ frame[1].kind = "single" /\ frame[1].status = 200
  /\ frame[1].entries[1].temperature = Num(31)
  /\ \E j \in ExceedsRules(frame[1]) :
       /\ alerts[j].threshold_value = 30
       /\ InList(alerts[j].id, frame[1].triggered)
       /\ alerts[j].last_triggered # Null

\* C7 (as claimed): the example batch is answered with processed = 1,
\* total = 3 and an error list that holds exactly the entry of sender 2.
C7_ExampleBatchReportsError ==
  \A p \in Procs :
    (pc[p] = "done" /\ frame[p].kind = "batch" /\ frame[p].entries = ExampleBatch) =>
      /\ frame[p].status = 200
      /\ frame[p].processed = 1
      /\ Len(frame[p].entries) = 3
      /\ frame[p].errors = <<"2">>

\* The create-alert requests the claim is about: the type is none of the
\* enumeration, the condition none of the operator set, or the threshold
\* does not parse as a number.
InvalidAlertRequest(b) ==
  \/ b.alert_type.s \notin {"temperature", "humidity", "pressure", "battery"}
  \/ b.condition.s \notin {">", "<", ">=", "<=", "==", "!="}
  \/ b.threshold_value.t \in {"undefined", "null"}
  \/ (b.threshold_value.t = "string"
        /\ b.threshold_value.s # "Infinity"
        /\ ~IsDigit(Head(Chars(b.threshold_value.s) \o <<"x">>)))

\* C8: a create-alert request with an invalid type, condition or threshold
\* is rejected at once; the step writes no alert rule and no Event Log
\* entry, and listAlerts is the same for every sender.
C8_InvalidAlertRejected ==
  [][\A p \in Procs :
       (frame'[p].rid # frame[p].rid /\ frame'[p].kind = "alert"
          /\ InvalidAlertRequest(frame'[p].areq)) =>
         /\ pc'[p] = "done" /\ frame'[p].status = 400
         /\ alerts' = alerts
         /\ system_logs' = system_logs
         /\ \A j \in 1..Len(senders) :
              GetAlerts(alerts', senders[j].sender_id)
                = GetAlerts(alerts, senders[j].sender_id)]_vars

\* A request with alert_type "invalid_type" was rejected while sender 1 has
\* rules.
C8_Witness ==
  /\ pc[1] = "done" /\ frame[1].kind = "alert" /\ frame[1].status = 400
  /\ frame[1].areq.alert_type = Str("invalid_type")
  /\ GetAlerts(alerts, "1") # <<>>

\* C10 (as claimed): a single ingestion without an id is rejected with a
\* validation error and creates no sender and no reading.
C10_MissingIdRejected ==
  /\ \A p \in Procs :
       (frame[p].kind = "single" /\ frame[p].entries[1].id.t = "undefined") =>
         pc[p] = "done" /\ frame[p].status = 400
  /\ ~SenderExists(senders, JsString(Undef))
  /\ \A j \in 1..Len(weather_data) : weather_data[j].sender_id # JsString(Undef)

\* A finished query of the given kind that was answered with data.
Answered(p, kind) ==
  pc[p] = "done" /\ frame[p].kind = kind /\ frame[p].status = 200

\* The stored readings of a sender, and those in the window of a query.
Stored(sid) ==
  {weather_data[j] : j \in {l \in 1..Len(weather_data) :
                              weather_data[l].sender_id = sid}}

WindowStart(f) == f.at - f.hours * HourSecs

InQueryWindow(f) ==
  {r \in Stored(f.senderId) : r.unix_timestamp.n >= WindowStart(f)}

SameHour(a, b) == a.unix_timestamp.n \div HourSecs = b.unix_timestamp.n \div HourSecs

Returned(f) == {f.data[i] : i \in 1..Len(f.data)}

\* C3 (as claimed): hourlySamples returns at most one reading per calendar
\* hour, also when stored readings share a timestamp.
C3_AtMostOnePerHour ==
  \A p \in Procs :
    Answered(p, "samples") =>
      \A i, j \in 1..Len(frame[p].data) :
        i # j => ~SameHour(frame[p].data[i], frame[p].data[j])

\* C4 (as claimed): every returned reading has the minimum timestamp among
\* all stored readings of the sender in its calendar hour.
C4_MinOfWholeHour ==
  \A p \in Procs :
    Answered(p, "samples") =>
      \A r \in Returned(frame[p]) :
        \A x \in Stored(frame[p].senderId) :
          SameHour(x, r) => r.unix_timestamp.n <= x.unix_timestamp.n

\* C4 (amended): every returned reading is a reading of the sender in the
\* window and has the minimum timestamp among the sender's readings of its
\* calendar hour that lie in the window (timestamp >= now - hoursBack*3600).
C4_MinOfHourInWindow ==
  \A p \in Procs :
    Answered(p, "samples") =>
      \A r \in Returned(frame[p]) :
        /\ r \in InQueryWindow(frame[p])
        /\ \A x \in InQueryWindow(frame[p]) :
             SameHour(x, r) => r.unix_timestamp.n <= x.unix_timestamp.n

\* The window starts inside an hour: the returned reading of that hour is
\* preceded by a stored reading of the same hour that is outside the window.
C4_Witness ==
  /\ Answered(1, "samples")
  /\ \E r \in Returned(frame[1]) :
       \E x \in Stored(frame[1].senderId) :
         SameHour(x, r) /\ x.unix_timestamp.n < WindowStart(frame[1])

\* The non-null temperatures of a set of readings, one entry per reading.
Temperatures(S) ==
  {[id |-> r.id, v |-> r.temperature.n] : r \in {x \in S : x.temperature.t = "number"}}

HourIndex(k) == k.day * 24 + k.hour

\* C5 (as claimed): avg_temp of a bucket is the arithmetic mean of the
\* non-null temperatures of all readings of the sender in that hour
\* (avg_temp is kept in hundredths).
C5_AvgIsMeanOfHour ==
  \A p \in Procs :
    Answered(p, "averages") =>
      \A i \in 1..Len(frame[p].data) :
        LET q == frame[p].data[i]
            temps == Temperatures({r \in Stored(frame[p].senderId) :
                        r.unix_timestamp.n \div HourSecs = HourIndex(q.hour)})
        IN IF temps = {} THEN q.avg_temp = Null
           ELSE /\ q.avg_temp.t = "number"
                /\ q.avg_temp.n * Cardinality(temps) = 100 * SumOf(temps)

\* C5 (amended): avg_temp of a bucket is the arithmetic mean, rounded to two
\* decimals, of the non-null temperatures of the sender's readings in the
\* window whose timestamp truncates to that hour (NULL when there is none).
C5_AvgIsRoundedMeanInWindow ==
  \A p \in Procs :
    Answered(p, "averages") =>
      \A i \in 1..Len(frame[p].data) :
        LET q == frame[p].data[i]
            temps == Temperatures({r \in InQueryWindow(frame[p]) :
                        r.unix_timestamp.n \div HourSecs = HourIndex(q.hour)})
            n == Cardinality(temps)
        IN IF temps = {} THEN q.avg_temp = Null
           ELSE /\ q.avg_temp.t = "number"
                /\ 2 * Abs(q.avg_temp.n * n - 100 * SumOf(temps)) <= n

\* The window start falls inside the oldest bucket: a reading of that hour
\* with a temperature lies before it, and the average over the readings in
\* the window differs from the mean over the whole hour.
C5_Witness ==
  /\ Answered(1, "averages")
  /\ Len(frame[1].data) > 0
  /\ LET q == frame[1].data[1]
         hour == Temperatures({r \in Stored(frame[1].senderId) :
                     r.unix_timestamp.n \div HourSecs = HourIndex(q.hour)})
     IN /\ \E x \in Stored(frame[1].senderId) :
             /\ x.unix_timestamp.n \div HourSecs = HourIndex(q.hour)
             /\ x.unix_timestamp.n < WindowStart(frame[1])
             /\ x.temperature.t = "number"
        /\ q.avg_temp.t = "number"
        /\ q.avg_temp.n * Cardinality(hour) # 100 * SumOf(hour)

\* C6: range returns exactly the readings of the sender with timestamp >=
\* now - H*3600, each once, none of another sender, in ascending order of
\* timestamp; and for H1 <= H2 the result for H1 is part of that for H2.
C6_RangeExactAndMonotone ==
  \A p \in Procs :
    Answered(p, "range") =>
      LET f == frame[p]
          result(h) == WindowRows(weather_data, f.senderId, f.at, h)
      IN /\ Returned(f) = InQueryWindow(f)
         /\ Len(f.data) = Cardinality(InQueryWindow(f))
         /\ \A i \in 1..Len(f.data) : f.data[i].sender_id = f.senderId
         /\ \A i, j \in 1..Len(f.data) :
              i < j => f.data[i].unix_timestamp.n <= f.data[j].unix_timestamp.n
         /\ \A h1, h2 \in 1..3 : h1 <= h2 => result(h1) \subseteq result(h2)

\* A range answer that leaves out an older reading of the sender while a
\* reading of another sender lies in the window.
C6_Witness ==
  /\ Answered(1, "range")
  /\ Len(frame[1].data) >= 2
  /\ \E x \in Stored(frame[1].senderId) : x.unix_timestamp.n < WindowStart(frame[1])
  /\ \E y \in Stored("B") :
       frame[1].senderId # "B" /\ y.unix_timestamp.n >= WindowStart(frame[1])

DistinctTimes(S) ==
  \A x, y \in S : x # y => x.unix_timestamp.n # y.unix_timestamp.n

HoursOf(S) == {r.unix_timestamp.n \div HourSecs : r \in S}

\* C9 (as claimed): with pairwise distinct timestamps in the window,
\* hourlySamples returns exactly one row for each hour bucket that holds a
\* reading in the window, in ascending order, and at most hoursBack rows.
C9_OneRowPerWindowBucket ==
  \A p \in Procs :
    (Answered(p, "samples") /\ DistinctTimes(InQueryWindow(frame[p]))) =>
      /\ HoursOf(Returned(frame[p])) = HoursOf(InQueryWindow(frame[p]))
      /\ Len(frame[p].data) = Cardinality(HoursOf(InQueryWindow(frame[p])))
      /\ Len(frame[p].data) <= frame[p].hours

\* C9 (amended): with pairwise distinct timestamps in the window,
\* hourlySamples returns exactly one row for each of the hoursBack most
\* recent hour buckets that hold a reading in the window (for all of them
\* when they are at most hoursBack), in ascending order of timestamp; the
\* readings at T, T+1800 and T+3700 in the window yield 2 rows for
\* hoursBack = 2.
C9_OneRowPerRecentBucket ==
  \A p \in Procs :
    (Answered(p, "samples") /\ DistinctTimes(InQueryWindow(frame[p]))) =>
      LET f == frame[p]
          hours == HoursOf(InQueryWindow(f))
          recent == {h \in hours : Cardinality({g \in hours : g > h}) < f.hours}
      IN /\ HoursOf(Returned(f)) = recent
         /\ Len(f.data) = Cardinality(recent)
         /\ Len(f.data) <= f.hours
         /\ \A i, j \in 1..Len(f.data) :
              i < j => f.data[i].unix_timestamp.n < f.data[j].unix_timestamp.n
         /\ ({r.unix_timestamp.n : r \in InQueryWindow(f)}
               = {T0, T0 + 1800, T0 + 3700} /\ f.hours = 2)
              => Len(f.data) = 2

\* The scenario: readings at T, T+1800 and T+3700, hoursBack = 2, two rows,
\* the earliest reading of each bucket.
C9_Witness ==
  /\ Answered(1, "samples")
  /\ frame[1].hours = 2
  /\ {r.unix_timestamp.n : r \in InQueryWindow(frame[1])} = {T0, T0 + 1800, T0 + 3700}
  /\ Len(frame[1].data) = 2
  /\ frame[1].data[1].unix_timestamp.n = T0
  /\ frame[1].data[2].unix_timestamp.n = T0 + 3700

\* An entry without a sender: the id is missing or is the sentinel -1.
NoSenderEntry(e) == e.id = Undef \/ e.id = Num(-1)

\* The rows a step has appended to a table.
Appended(before, after) ==
  {after[j] : j \in (Len(before) + 1)..Len(after)}

\* The handler slot p has taken a step.
Moved(p) == pc'[p] # pc[p] \/ frame'[p] # frame[p]

\* C11: an entry of a batch without id or with the id -1 is skipped with no
\* effect: every write of a batch handler (sender, reading, Event Log) is
\* for an entry that has a sender, alert evaluation and the processed
\* count are reached for such entries only, and the answered batch counts
\* exactly the entries that have a sender.
C11_SkippedEntriesNoEffect ==
  [][\A p \in Procs :
       (Moved(p) /\ frame'[p].kind = "batch") =>
         LET f == frame[p]
             g == frame'[p]
         IN /\ store' # store =>
                 /\ f.i \in 1..Len(f.entries)
                 /\ ~NoSenderEntry(f.entries[f.i])
                 /\ \A r \in Appended(senders, senders') \cup
                              Appended(weather_data, weather_data') :
                      r.sender_id = JsString(f.entries[f.i].id)
                 /\ \A r \in Appended(system_logs, system_logs') :
                      r.sender_id \in {Null, Str(JsString(f.entries[f.i].id))}
            /\ pc'[p] \in {"ensureSender", "insert", "getAlerts", "update"} =>
                 ~NoSenderEntry(g.entries[g.i])
            /\ (g.rid = f.rid /\ (g.processed # f.processed \/ g.errors # f.errors)) =>
                 ~NoSenderEntry(f.entries[f.i])
            /\ (pc'[p] = "done" /\ g.status = 200) =>
                 g.processed + Len(g.errors) =
                   Cardinality({l \in 1..Len(g.entries) : ~NoSenderEntry(g.entries[l])})]_vars

\* A batch with an entry without id and an entry with the id -1 has been
\* answered: one entry processed, no sender "undefined" or "-1".
C11_Witness ==
  /\ pc[1] = "done" /\ frame[1].kind = "batch" /\ frame[1].status = 200
  /\ frame[1].entries = SkipBatch
  /\ frame[1].processed = 1
  /\ ~SenderExists(senders, "undefined") /\ ~SenderExists(senders, "-1")

\* C12 (as claimed): when the write of one entry of a batch fails (and
\* nothing else does), the handler still goes through every other entry,
\* the readings of the entries that succeeded are stored, and the response
\* reports success with the failing entry, and only it, in the error list.
C12_BatchSurvivesEntryFailure ==
  \A p \in Procs :
    (frame[p].kind = "batch"
       /\ frame[p].failedAt \in {<<"ensureSender">>, <<"insert">>}) =>
      /\ pc[p] \notin {"catchOuter", "hung"}
      /\ pc[p] = "done" =>
           /\ frame[p].status = 200
           /\ Len(frame[p].errors) = 1
           /\ frame[p].processed = Len(frame[p].entries) - 1
           /\ Len(weather_data) >= frame[p].processed

\* C13 (as claimed): when the reading is written and the alert evaluation
\* that follows fails (and nothing else does), a single ingestion is
\* answered with success and the row id, and a batch counts the entry as
\* processed and has no error for it.
C13_AlertFailureKeepsSuccess ==
  \A p \in Procs :
    (frame[p].kind \in {"single", "batch"}
       /\ frame[p].failedAt \in {<<"getAlerts">>, <<"update">>}) =>
      /\ pc[p] # "hung"
      /\ frame[p].errors = <<>>
      /\ pc[p] = "done" =>
           /\ frame[p].status = 200
           /\ frame[p].kind = "single" => frame[p].lastID > 0
           /\ frame[p].kind = "batch" => frame[p].processed = Len(frame[p].entries)

\* C14 (as claimed): when the primary operation has succeeded and the
\* logEvent call that follows it fails (and nothing else does), the
\* caller receives the success response of the primary operation.
C14_LogFailureKeepsSuccess ==
  \A p \in Procs :
    frame[p].failedAt = <<"log">> =>
      /\ pc[p] # "hung"
      /\ pc[p] = "done" =>
           frame[p].status = (IF frame[p].kind = "alert" THEN 201 ELSE 200)

\* The create-alert requests that are valid: a sender, a type of the
\* enumeration, a condition of the operator set and a threshold that parses
\* as a finite number.
ValidAlertRequest(b) ==
  /\ b.sender_id.t = "string" /\ b.sender_id.s # ""
  /\ b.alert_type.t = "string"
  /\ b.alert_type.s \in {"temperature", "humidity", "pressure", "battery"}
  /\ b.condition.t = "string"
  /\ b.condition.s \in {">", "<", ">=", "<=", "==", "!="}
  /\ \/ b.threshold_value.t = "number"
     \/ /\ b.threshold_value.t = "string"
        /\ IsDigit(Head(Chars(b.threshold_value.s) \o <<"x">>))

\* C15 (as claimed): a create-alert request is rejected exactly when it is
\* not valid; a battery rule with a valid condition and threshold is
\* accepted, the threshold Infinity is rejected.
C15_AcceptsExactlyValid ==
  \A p \in Procs :
    frame[p].kind = "alert" =>
      ((pc[p] = "done" /\ frame[p].status = 400) <=> ~ValidAlertRequest(frame[p].areq))

\* The active rules of the sender of a finished single ingestion that carry
\* the condition in the form the create-alert endpoint accepts for 'exceeds'.
SymbolExceedsRules(f) ==
  {j \in 1..Len(alerts) :
     /\ alerts[j].sender_id = f.senderId
     /\ alerts[j].is_active = 1
     /\ alerts[j].condition = ">"}

\* C16 (as claimed): a rule created through the endpoint with condition '>'
\* and threshold t fires on a later ingested reading of its sender whose
\* matching field is greater than t: it is among the triggered alerts and
\* its last_triggered is set.
C16_EndpointRuleFires ==
  \A p \in Procs :
    (pc[p] = "done" /\ frame[p].kind = "single" /\ frame[p].status = 200) =>
      \A j \in SymbolExceedsRules(frame[p]) :
        LET v == FieldOfType(alerts[j].alert_type, frame[p].entries[1])
        IN (v.t = "number" /\ v.n > alerts[j].threshold_value) =>
             /\ InList(alerts[j].id, frame[p].triggered)
             /\ alerts[j].last_triggered # Null

\* The first value of a list of payload fields that is neither absent nor
\* null, Null when there is none.
RECURSIVE FirstNonNull(_)
FirstNonNull(vs) ==
  IF vs = <<>> THEN Null
  ELSE IF Head(vs).t \in {"undefined", "null"} THEN FirstNonNull(Tail(vs))
  ELSE Head(vs)

\* C17 (as claimed): the pressure stored for an ingested reading is the
\* first non-null value among pressure, bar, gasval, gas_value in that
\* order, null when all four are absent or null; a 0 in an earlier field
\* wins over a later field.
C17_PressureFirstNonNull ==
  \A p \in Procs :
    (pc[p] = "done" /\ frame[p].kind = "single" /\ frame[p].status = 200) =>
      LET d == frame[p].entries[1]
      IN weather_data[frame[p].lastID].pressure
           = FirstNonNull(<<d.pressure, d.bar, d.gasval, d.gas_value>>)

\* The maximum and the default of the hours parameter of a query.
MaxHoursOf(kind) ==
  IF kind = "visualization" THEN MAX_HOURS_VISUALIZATION ELSE MAX_HOURS_STANDARD

DefaultHoursOf(kind) ==
  IF kind = "samples" THEN DefaultSampleHours ELSE DefaultRangeHours

QueryKinds == {"samples", "range", "averages", "visualization"}

\* C18: the window of every query is an integer of 1..720 (1..168 for the
\* visualization query); an absent, non-numeric (no leading integer) or
\* non-positive hours value yields the default (5 for hourly samples, 24
\* otherwise), a value above the maximum yields the maximum, a value in the
\* range is taken as it is.
C18_HoursClamped ==
  \A p \in Procs :
    frame[p].kind \in QueryKinds =>
      LET h == frame[p].hours
          raw == frame[p].qhours
          max == MaxHoursOf(frame[p].kind)
          dflt == DefaultHoursOf(frame[p].kind)
      IN /\ h \in 1..max
         /\ raw \in {Undef, Str(""), Str("abc")} => h = dflt
         /\ \A n \in HourValues :
              raw = Str(HourText(n)) =>
                /\ n <= 0 => h = dflt
                /\ n > max => h = max
                /\ n \in 1..max => h = n

\* The visualization query was answered for hours=169 with the readings of
\* the window 168.
C18_Witness ==
  \E p \in Procs :
    /\ pc[p] = "done" /\ frame[p].kind = "visualization"
    /\ frame[p].status = 200 /\ frame[p].viz # <<>>
    /\ frame[p].qhours = Str("169") /\ frame[p].hours = MAX_HOURS_VISUALIZATION

\* C19: latest(senderId) returns a stored reading of the sender whose
\* timestamp is the largest of the sender's stored readings, whatever the
\* order of insertion, and answers not-found exactly when the sender is
\* unknown or has no reading.
C19_LatestIsMaxTimestamp ==
  [][\A p \in Procs :
       (frame[p].kind = "current" /\ pc[p] \in {"currentSender", "latest"}
          /\ pc'[p] = "done") =>
         LET g == frame'[p]
             rows == RowsOf(weather_data, g.senderId)
         IN /\ g.status \in {200, 404}
            /\ g.status = 404 <=>
                 (~SenderExists(senders, g.senderId) \/ rows = {})
            /\ g.status = 200 =>
                 /\ Len(g.data) = 1
                 /\ g.data[1] \in rows
                 /\ \A x \in rows : Ts(g.data[1]) >= Ts(x)]_vars

\* The latest reading was answered with a backfill in store: a reading
\* inserted later with an earlier timestamp.
C19_Witness ==
  \E p \in Procs :
    /\ pc[p] = "done" /\ frame[p].kind = "current" /\ frame[p].status = 200
    /\ \E x \in RowsOf(weather_data, frame[p].senderId) :
         x.id > frame[p].data[1].id /\ Ts(x) < Ts(frame[p].data[1])

\* C20 (as claimed): for every integer limit the answered statistics hold
\* at most limit rollups (none for a limit below 1), all of the requested
\* sender and type, in descending order of period_start; an absent or
\* unparseable limit counts as 24.
C20_AtMostLimitRollups ==
  [][\A p \in Procs :
       (pc[p] = "statistics" /\ pc'[p] = "done") =>
         LET g == frame'[p]
         IN /\ \A j \in 1..Len(g.data) :
                 /\ g.data[j].sender_id = g.senderId
                 /\ g.data[j].stat_type = g.statType
            /\ \A j \in 1..(Len(g.data) - 1) :
                 g.data[j].period_start >= g.data[j + 1].period_start
            /\ g.qlimit \in {Undef, Str("abc")} => Len(g.data) <= DefaultLimit
            /\ \A n \in LimitValues :
                 g.qlimit = Str(HourText(n)) =>
                   Len(g.data) <= (IF n < 0 THEN 0 ELSE n)]_vars

\* The row of sender sid.
SenderRow(rows, sid) == CHOOSE r \in {rows[j] : j \in 1..Len(rows)} : r.sender_id = sid

C22_IngestionKeepsSender ==
  [][(\E j \in 1..Len(senders) : j > Len(senders') \/ senders'[j] # senders[j]) =>
       \E p \in Procs :
         /\ frame[p].kind \in {"put", "updateSender"}
         /\ pc[p] = "updateSender" /\ pc'[p] # "updateSender"]_vars

\* A reading that carries the name Garten was ingested for the deactivated
\* sender 1, whose name is another one.
C22_Witness ==
  \E p \in Procs :
    /\ pc[p] = "done" /\ frame[p].kind = "single" /\ frame[p].status = 200
    /\ frame[p].entries[1].name = Str("Garten")
    /\ frame[p].lastID > 1
    /\ SenderExists(senders, "1")
    /\ SenderRow(senders, "1").name # "Garten"
    /\ SenderRow(senders, "1").is_active = 0

\* The active rules of the sender of an ingestion, in the word form
\* checkAlerts evaluates, that the reading satisfies.
SatisfiedRules(f) ==
  {j \in 1..Len(alerts) :
     /\ alerts[j].sender_id = f.senderId
     /\ alerts[j].is_active = 1
     /\ LET v == FieldOfType(alerts[j].alert_type, f.entries[1])
        IN /\ v.t = "number"
           /\ \/ alerts[j].condition = "above" /\ v.n > alerts[j].threshold_value
              \/ alerts[j].condition = "below" /\ v.n < alerts[j].threshold_value}

\* The alert_triggered events logged for a sender.
TriggerEvents(sid) ==
  {j \in 1..Len(system_logs) :
     /\ system_logs[j].event_type = "alert_triggered"
     /\ system_logs[j].sender_id = Str(sid)}

\* C23: there is no cooldown.  Every answered ingestion whose reading
\* satisfies an active rule returns the rule as triggered, whether or not
\* the rule has fired before, and each firing replaces the one value of
\* last_triggered by the time of the firing and leaves the number of rules
\* and every other field of every rule as it is.
C23_NoCooldown ==
  /\ [](\A p \in Procs :
          (pc[p] = "done" /\ frame[p].kind = "single" /\ frame[p].status = 200) =>
            \A j \in SatisfiedRules(frame[p]) :
              /\ InList(alerts[j].id, frame[p].triggered)
              /\ alerts[j].last_triggered # Null)
  /\ [][\A p \in Procs :
          (pc[p] = "update" /\ Moved(p)) =>
            /\ Len(alerts') = Len(alerts)
            /\ \E j \in 1..Len(alerts) :
                 alerts' = [alerts EXCEPT ![j].last_triggered = Num(now)]]_vars

\* The seeded rule of sender 1 has fired on two consecutive readings, the
\* second firing later than the first, and holds the time of the second.
C23_Witness ==
  /\ pc[1] = "done" /\ frame[1].kind = "single" /\ frame[1].status = 200
  /\ frame[1].entries[1].temperature = Num(31)
  /\ InList(1, frame[1].triggered)
  /\ Cardinality(TriggerEvents("1")) = 2
  /\ now > T0
  /\ alerts[1].last_triggered = Num(now)

\* Every step of a batch handler keeps the outcome of its batch: the
\* function BatchOutcome is what the handler computes.
BatchOutcomeKept ==
  [][\A p \in Procs :
       (frame[p].kind = "batch" /\ frame'[p].kind = "batch"
          /\ frame'[p].rid = frame[p].rid /\ Moved(p)) =>
         Persisted(OutcomeFrom(pc[p], frame[p], senders, weather_data, alerts))
           = Persisted(OutcomeFrom(pc'[p], frame'[p], senders', weather_data',
                                   alerts'))]_vars

\* C24 (as claimed): a batch and every permutation of it, processed from
\* the same store, leave the same senders with the same names, the same
\* readings, the same fired rules and the same processed count, also when
\* two entries of one unseen sender carry different names.
C24_PermutationSameState ==
  [][\A p \in Procs :
       (frame'[p].kind = "batch" /\ frame'[p].rid # frame[p].rid
          /\ pc'[p] = "ensureSender") =>
         \A q \in Orders(frame'[p].entries) :
           Persisted(BatchOutcome(Reached(Frame0, senders, weather_data, alerts),
                                  q, 1, "ensureSender"))
             = Persisted(BatchOutcome(Reached(Frame0, senders, weather_data, alerts),
                                      frame'[p].entries, 1, "ensureSender"))]_vars

\* The read and management operations addressed to a sender.
SenderOperations ==
  {"current", "samples", "range", "averages", "statistics", "put"}

\* C25: a read or management operation addressed to an unknown sender
\* writes nothing, and when it is answered the answer is not-found (404),
\* or bad request (400) for an update whose body fails validation; it is
\* never a success or a storage error.
C25_UnknownSenderNotFound ==
  [][\A p \in Procs :
       (frame'[p].kind \in SenderOperations /\ Moved(p)
          /\ ~SenderExists(senders, frame'[p].senderId)) =>
         /\ store' = store
         /\ pc'[p] = "done" =>
              IF frame'[p].kind = "put"
                   /\ PutRejected(frame'[p].senderId, frame'[p].ureq)
              THEN frame'[p].status = 400
              ELSE frame'[p].status = 404]_vars

\* Sender 1 is registered by an ingestion, and an update of sender 9 with a
\* valid body was answered not-found: sender 9 has no row.
C25_Witness ==
  \E p \in Procs :
    /\ pc[p] = "done" /\ frame[p].kind = "put" /\ frame[p].senderId = "9"
    /\ frame[p].ureq = Update(Str("Neu"), Undef, Undef, Undef)
    /\ frame[p].status = 404
    /\ SenderExists(senders, "1") /\ ~SenderExists(senders, "9")
    /\ weather_data # <<>>

\* The rules checkAlerts has loaded when it returns: those it reads in the
\* step that returns, or those it read before its first UPDATE.
LoadedRules(p) ==
  IF pc[p] = "getAlerts" THEN GetAlerts(alerts, frame[p].senderId)
  ELSE frame[p].rules

\* C26 (as claimed): alert evaluation uses the values written for the
\* reading.  When checkAlerts returns for a single ingestion, every active
\* pressure rule 'above' whose threshold the stored pressure of the reading
\* exceeds is among the triggered rules, under whichever field name the
\* payload carried the pressure.
C26_RuleSeesStoredPressure ==
  [][\A p \in Procs :
       (frame[p].kind = "single" /\ pc[p] \in {"getAlerts", "update"}
          /\ pc'[p] \in {"log", "done"}) =>
         \A j \in 1..Len(LoadedRules(p)) :
           LET r == LoadedRules(p)[j]
               stored == weather_data[frame[p].lastID].pressure
           IN (r.alert_type = "pressure" /\ r.condition = "above"
                 /\ stored.t = "number" /\ stored.n > r.threshold_value) =>
                InList(r.id, frame'[p].triggered)]_vars

\* C27: within one ingestion the sender is registered, then the reading is
\* written, then the rules are evaluated.  checkAlerts is entered only by
\* the step that stores the reading of the entry; a rule's last_triggered
\* changes only inside checkAlerts; a rejected registration or write stores
\* nothing, and the catch block that follows goes on to the error response
\* or to a later entry, never to the write or the evaluation of this entry.
C27_EvaluationAfterWrite ==
  [][\A p \in Procs :
       (frame[p].kind \in {"single", "batch"} /\ Moved(p)
          /\ frame'[p].rid = frame[p].rid) =>
         LET f == frame[p]
         IN /\ (pc'[p] = "getAlerts" /\ pc[p] # "getAlerts") =>
                 /\ pc[p] = "insert"
                 /\ frame'[p].i = f.i
                 /\ Len(weather_data') = Len(weather_data) + 1
                 /\ weather_data'[Len(weather_data')].sender_id = f.senderId
            /\ pc'[p] = "insert" =>
                 pc[p] = "ensureSender" /\ SenderExists(senders', f.senderId)
            /\ alerts' # alerts => pc[p] = "update"
            /\ pc'[p] = "update" => pc[p] \in {"getAlerts", "update"}
            /\ (pc[p] \in {"ensureSender", "insert"}
                  /\ pc'[p] \in {"catchLog", "catchOuter"}) => store' = store
            /\ pc[p] \in {"catchLog", "catchOuter"} =>
                 /\ pc'[p] \notin {"insert", "getAlerts", "update"}
                 /\ weather_data' = weather_data /\ alerts' = alerts
                 /\ pc'[p] = "ensureSender" => frame'[p].i > f.i]_vars

\* The write of the first entry of the batch (sender 1, temperature 31) was
\* rejected: the batch is answered with that entry in its error list and
\* the two others processed, and the seeded rule of sender 1, which 31
\* exceeds, has not fired.
C27_Witness ==
  \E p \in Procs :
    /\ pc[p] = "done" /\ frame[p].kind = "batch" /\ frame[p].status = 200
    /\ frame[p].entries = FaultBatch
    /\ frame[p].failedAt = <<"insert">>
    /\ frame[p].errors = <<"1">> /\ frame[p].processed = 2
    /\ Len(alerts) > 0 /\ alerts[1].last_triggered = Null

\* C29: no statement of a request handler runs before initializeDatabase
\* has completed (all schema statements, then the index statements); in
\* particular no handler runs a statement on a table that does not exist.
C29_StoreReadyBeforeUse ==
  [][\A p \in Procs :
       (Moved(p) /\ pc[p] \in {"ensureSender", "insert", "getAlerts", "update",
                               "log", "createAlert", "catchLog", "catchOuter"})
         => startup.db = "complete" /\ Exists(TableOf(pc[p]))]_vars

\* C28: every single-ingest request and every batch request that has been
\* taken up is eventually answered, whichever of its statements fail.
C28_EveryRequestAnswered ==
  \A p \in Procs :
    (frame[p].kind \in {"single", "batch"} /\ pc[p] \notin {"idle", "done"})
      ~> (pc[p] = "done")

\* The readings that the seeding script has written.
SeededReadings ==
  IF script.pc = "closed" THEN Len(ScriptSenders) * ScriptReadings ELSE 0

SkippedCount(entries) ==
  Cardinality({j \in 1..Len(entries) : Continues(entries[j])})

\* C30: the response to a batch with a non-empty array body reports
\* total = the number of entries, processed + the length of the error list
\* + the number of skipped entries = total, and processed = the number of
\* readings the batch has added to the store.
C30_BatchAccounting ==
  \A p \in Procs :
    (pc[p] = "done" /\ frame[p].kind = "batch" /\ frame[p].isArray
       /\ Len(frame[p].entries) > 0) =>
      LET f == frame[p]
      IN /\ f.status = 200
         /\ f.processed + Len(f.errors) + SkippedCount(f.entries)
              = Len(f.entries)
         /\ f.processed = Len(weather_data) - SeededReadings

====
